---- MODULE Spec2Model ----
(***************************************************************************)
(* Model of the benchmark orchestration code:                              *)
(*   - BaseClient.run_experiment and the Result Store it writes            *)
(*     (engine/base_client/client.py)                                      *)
(*   - the profiling sweep driver test() and run_profile (run_profile.py)  *)
(* The Result Store is modelled for one (experiment, dataset) pair: the    *)
(* files RESULTS_DIR holds for it, each named by stage, search_id and the  *)
(* second-resolution timestamp of the save.                                *)
(***************************************************************************)
EXTENDS Integers, Sequences, FiniteSets, TLC

\* ---------------------------------------------------------------- bounds
MaxSearchers == 2     \* len(self.searchers) ranges over 0..MaxSearchers
MaxTime == 1          \* datetime.now() (seconds) ranges over 0..MaxTime
MaxRuns == 3          \* run_experiment invocations in one behaviour
MaxDetailRuns == 1    \* the same, where the backend's returns are varied
MaxFlushRuns == 2     \* the same, where drop_caches is varied
NumDatasets == 2      \* len(dataset_config) of the sweep, scaled down
NumSizes == 2         \* len(size_config) of the sweep, scaled down
NumIters == 2         \* iteration_num of the sweep, scaled down
MaxRows == 1          \* total_rows / indexed_rows range over 0..MaxRows
MaxPolls == 2         \* sleeps of one polling loop are counted up to MaxPolls
MaxComm == 2          \* characters in a process name (comm) of an event line
MaxEvents == 2        \* event lines one tracer run writes
MaxFiles == 2         \* trace files (runs) the summary aggregates
MaxCount == 2         \* count of one (process, event) key in one parsed file

NoId == -1            \* search_id of a file or call that has none

\* ------------------------------------------------------------- variables
VARIABLES
    \* --- Result Store and Experiment Runner (client.py)
    store,            \* files of RESULTS_DIR: [kind, search_id, ts, results]
    now,              \* the clock datetime.now() reads, in seconds
    searchers,        \* len(self.searchers)
    DETAILED_RESULTS, \* module-level toggle read from the environment
    drop_caches,      \* self.drop_caches
    has_ensure_loaded,\* hasattr(self.uploader, "ensure_loaded")
    upload_stats,     \* keys of the dict this backend's Uploader.upload returns
    search_stats,     \* keys of the dict this backend's Searcher.search_all returns
    pc,               \* position of run_experiment
    flags,            \* arguments of the current invocation
    search_id,        \* loop variable of the search stage
    log,              \* calls made by the current invocation, in order
    pre,              \* the store when the current invocation was entered
    prev,             \* the flags of the invocation that came immediately before,
                      \* when that one was entered with an empty store and ran to
                      \* "Experiment stage: Done" (ran = FALSE otherwise)
    runsLeft,         \* invocations still to be made
    \* --- Sweep driver and Profiling Coordinator (run_profile.py, run_profile_perf.py)
    driver,           \* "probe": run_profile.py, "perf": run_profile_perf.py
    spc,              \* position of test() and of the function it is in
    cell,             \* loop variables of test(): [d, s, i]
    exc,              \* TRUE while an exception propagates out of the try body
    is_exist,         \* what start_docker_containers returned (perf)
    container,        \* "absent", "running", "not_running", "lingering"
    volumes,          \* resource sizes whose volumes directory exists
    connected,        \* the pymilvus connection "default" is open
    profiler,         \* tracer process: "none", "running", "exited", "killed"
    outcome,          \* how the query stage of run_profile ended
    slog,             \* calls made by the sweep since the last start, in order
    \* --- the Milvus server wait_for_indexing_completion polls
    index_progress,   \* the dict utility.index_building_progress returns now
    compaction,       \* the name of the state get_compaction_state returns now
    polls,            \* sleeps of the current polling loop, counted up to MaxPolls
    \* --- trace files and their summary (trace_system_fault.py,
    \*     run_profile_perf.py parse_perf_text, create_summary_csv.py)
    apc,              \* position of the analysis: "off", "write", "parse", "parsed",
                      \* "aggregate", "filter", "written", "no_data"
    variant,          \* the tracer that writes the file: "bpf" or "perf"
    events,           \* the event lines the tracer has to write, in order
    trace_file,       \* the lines of the trace text file
    event_counter,    \* the Counter parse_log_file returned
    file_counts,      \* per run (column header), the Counter parsed from its file
    aggregated_data,  \* main(): event key -> run -> count
    csv,              \* the rows main() wrote: run -> event key -> count
    \* --- run_profile of run_profile_perf.py: record, then convert
    perf_data,        \* the raw trace file: "absent", "stale", "recorded", "removed"
    plog,             \* what run_profile has done so far, in order
    \* --- the tracer process of trace_system_fault.py
    out_buffer,       \* lines printed to output_file that are not in the file yet
    signal            \* the signal that ended the tracer, "none" before

backend == <<searchers, DETAILED_RESULTS, drop_caches, has_ensure_loaded,
             upload_stats, search_stats>>
runnerVars == <<store, now, backend, pc, flags, search_id, log, pre, prev, runsLeft>>
sweepVars == <<driver, spc, cell, exc, is_exist, container, volumes, connected,
               profiler, outcome, slog>>
milvus == <<index_progress, compaction, polls>>
perfVars == <<perf_data, plog>>
tracerVars == <<out_buffer, signal>>
analysis == <<apc, variant, events, trace_file, event_counter, file_counts,
              aggregated_data, csv, perfVars, tracerVars>>
vars == <<runnerVars, sweepVars, milvus, analysis>>

\* ------------------------------------------------------------ Result Store
Flags == [skip_upload : BOOLEAN, skip_search : BOOLEAN,
          skip_if_exists : BOOLEAN, skip_configure : BOOLEAN]

\* Keys of the dict Uploader.upload returns: {latencies?, ...}
UploadReturns == {{"count"}, {"latencies", "count"}}
\* Keys of the dict Searcher.search_all returns: {latencies?, precisions?, ...}
SearchReturns == {{"rps"}, {"latencies", "rps"}, {"precisions", "rps"},
                  {"latencies", "precisions", "rps"}}

File(kind, id, ts, results) ==
    [kind |-> kind, search_id |-> id, ts |-> ts, results |-> results]

\* The filename: f"{name}-{dataset}-search-{search_id}-{timestamp}.json" or
\* f"{name}-{dataset}-upload-{timestamp}.json"
FileName(f) == <<f.kind, f.search_id, f.ts>>

\* open(path, "w"); out.write(...): creates the file, or truncates and
\* rewrites the file of that name
WriteFile(s, f) == {g \in s : FileName(g) # FileName(f)} \cup {f}

save_search_results(s, results, id, ts) == WriteFile(s, File("search", id, ts, results))

save_upload_results(s, results, ts) == WriteFile(s, File("upload", NoId, ts, results))

\* RESULTS_DIR.glob(f"{name}-{dataset}-search-*-*.json")
GlobSearchAll(s) == {f \in s : f.kind = "search"}

\* variant: the pattern without the search_id
GlobSearchAnyId(s, id) == {f \in s : f.kind = "search"}

\* RESULTS_DIR.glob(f"{name}-{dataset}-search-{search_id}-*.json")
GlobSearchId(s, id) == {f \in s : f.kind = "search" /\ f.search_id = id}

UploadFiles(s) == {f \in s : f.kind = "upload"}

\* variant: nothing is removed from the upload results
StripUploadNothing(detailed, stats) == stats

\* upload_stats.pop("latencies", None) unless DETAILED_RESULTS
StripUpload(detailed, stats) ==
    IF detailed THEN stats ELSE stats \ {"latencies"}

\* variant: only the latencies are removed from the search results
StripSearchLatenciesOnly(detailed, stats) ==
    IF detailed THEN stats ELSE stats \ {"latencies"}

\* search_stats.pop("latencies", None); search_stats.pop("precisions", None)
\* unless DETAILED_RESULTS
StripSearch(detailed, stats) ==
    IF detailed THEN stats ELSE stats \ {"latencies", "precisions"}

\* ------------------------------------------------------ Experiment Runner
Ev(op, id, keys) == [op |-> op, id |-> id, keys |-> keys]

Ended == {"done", "skipped", "raised"}

\* run_experiment's defaults: skip_upload=False, skip_search=False,
\* skip_if_exists=True, skip_configure=False
DefaultFlags == [skip_upload |-> FALSE, skip_search |-> FALSE,
                 skip_if_exists |-> TRUE, skip_configure |-> FALSE]

NoRun == [ran |-> FALSE, flags |-> DefaultFlags]

\* variant: the Configure stage is never entered
AfterCheckNoConfigure(fl) ==
    IF ~fl.skip_upload
      THEN "upload"
      ELSE IF fl.skip_search THEN "done"
           ELSE IF has_ensure_loaded THEN "init_client" ELSE "search"

\* variant: the search loop is entered without waiting for the collection
AfterCheckNoLoad(fl) ==
    IF ~fl.skip_upload
      THEN IF ~fl.skip_configure THEN "configure" ELSE "upload"
      ELSE IF fl.skip_search THEN "done" ELSE "search"

\* variant: the Upload stage is resumed, not repeated, when an Upload artifact exists
AfterCheckResume(fl) ==
    IF ~fl.skip_upload /\ UploadFiles(store) = {}
      THEN IF ~fl.skip_configure THEN "configure" ELSE "upload"
      ELSE IF fl.skip_search THEN "done"
           ELSE IF has_ensure_loaded THEN "init_client" ELSE "search"

\* the stage that follows the whole-run check
AfterCheck(fl) ==
    IF ~fl.skip_upload
      THEN IF ~fl.skip_configure THEN "configure" ELSE "upload"
      ELSE IF fl.skip_search THEN "done"
           ELSE IF has_ensure_loaded THEN "init_client" ELSE "search"

\* the stage that follows the Upload stage, when upload ran
AfterUpload(fl) == IF fl.skip_search THEN "done" ELSE "search"

\* variant: no whole-run check
SkipWholeRunNever(fl, s, n) == FALSE

\* variant: the whole-run check made only when the upload is skipped
SkipWholeRunAfterUpload(fl, s, n) ==
    fl.skip_if_exists /\ fl.skip_upload /\ Cardinality(GlobSearchAll(s)) = n

\* variant: the whole-run check asks for an artifact of every search_id
SkipWholeRunAllMeasured(fl, s, n) ==
    fl.skip_if_exists /\ \A id \in 0..(n - 1) : GlobSearchId(s, id) # {}

\* if skip_if_exists: ... if len(existing_results) == len(self.searchers): return
SkipWholeRun(fl, s, n) ==
    fl.skip_if_exists /\ Cardinality(GlobSearchAll(s)) = n

\* variant: no per-configuration check
SkipSearchNever(fl, s, id) == FALSE

\* if skip_if_exists: ... if len(existing_results) >= 1: continue
SkipSearch(fl, s, id) ==
    fl.skip_if_exists /\ Cardinality(GlobSearchId(s, id)) >= 1

\* run_experiment is entered: the whole-run check
RunExperiment ==
    /\ pc \in {"idle"} \cup Ended
    /\ runsLeft > 0
    /\ \E fl \in Flags :
        /\ flags' = fl
        /\ pc' = IF SkipWholeRun(fl, store, searchers) THEN "skipped" ELSE AfterCheck(fl)
    /\ prev' = IF pc = "done" /\ pre = {} THEN [ran |-> TRUE, flags |-> flags] ELSE NoRun
    /\ pre' = store
    /\ log' = <<>>
    /\ search_id' = 0
    /\ runsLeft' = runsLeft - 1
    /\ UNCHANGED <<store, now, backend>>
    /\ UNCHANGED <<sweepVars, milvus, analysis>>

KeepRunner == UNCHANGED <<backend, flags, pre, prev, runsLeft, now>>

\* self.configurator.configure(dataset)
Configure ==
    /\ pc = "configure"
    /\ \E ok \in BOOLEAN :
        IF ok THEN /\ log' = Append(log, Ev("configure", NoId, {}))
                   /\ pc' = "upload"
              ELSE /\ log' = Append(log, Ev("configure_raised", NoId, {}))
                   /\ pc' = "raised"
    /\ UNCHANGED <<store, search_id>>
    /\ KeepRunner
    /\ UNCHANGED <<sweepVars, milvus, analysis>>

\* self.uploader.upload(...); strip; self.save_upload_results(...)
Upload ==
    /\ pc = "upload"
    /\ \/ LET kept == StripUpload(DETAILED_RESULTS, upload_stats) IN
            /\ store' = save_upload_results(store, kept, now)
            /\ log' = log \o <<Ev("upload", NoId, upload_stats),
                               Ev("save_upload", NoId, kept)>>
            /\ pc' = AfterUpload(flags)
       \/ /\ log' = Append(log, Ev("upload_raised", NoId, {}))
          /\ pc' = "raised"
          /\ UNCHANGED store
    /\ UNCHANGED search_id
    /\ KeepRunner
    /\ UNCHANGED <<sweepVars, milvus, analysis>>

\* variant: the exception of ensure_loaded leaves run_experiment
AfterEnsureLoadedRaises(loadOk) == IF loadOk THEN "search" ELSE "raised"

\* except Exception as e: print("Warning: ..."): the search loop follows
\* whether ensure_loaded returned or raised
AfterEnsureLoaded(loadOk) == "search"

\* upload skipped and the uploader has ensure_loaded: init_client (failures
\* ignored), then ensure_loaded (failures printed), then the search loop
EnsureLoaded ==
    /\ pc = "init_client"
    /\ \E initOk \in BOOLEAN, loadOk \in BOOLEAN :
        /\ log' = log \o <<Ev(IF initOk THEN "init_client" ELSE "init_client_raised", NoId, {}),
                           Ev(IF loadOk THEN "ensure_loaded" ELSE "ensure_loaded_raised", NoId, {})>>
        /\ pc' = AfterEnsureLoaded(loadOk)
    /\ UNCHANGED <<store, search_id>>
    /\ KeepRunner
    /\ UNCHANGED <<sweepVars, milvus, analysis>>

\* variant: the flush is made before the check for an existing artifact
FlushBeforeSkipCheck(skipped) == TRUE

\* the flush comes after the `continue` of a configuration that is skipped
FlushReached(skipped) == ~skipped

\* if self.drop_caches: os.system("sync"); os.system("... drop_caches") -- the
\* exit status os.system returns is not looked at; ok tells whether the write
\* to drop_caches succeeded
FlushLog(id, ok) ==
    IF drop_caches
      THEN <<Ev("sync", id, {}), Ev(IF ok THEN "drop_caches" ELSE "drop_caches_failed", id, {})>>
      ELSE <<>>

\* variant: the exception of search_all is swallowed and the loop goes on
AfterSearchRaisesGoOn == "search"

\* search_all is called outside any try: its exception leaves run_experiment
AfterSearchRaises == "raised"

\* one iteration of: for search_id, searcher in enumerate(self.searchers)
SearchIteration ==
    /\ pc = "search"
    /\ search_id < searchers
    /\ \E flushOk \in BOOLEAN :
        /\ flushOk \/ drop_caches
        /\ IF SkipSearch(flags, store, search_id)
             THEN /\ flushOk \/ FlushReached(TRUE)
                  /\ log' = (IF FlushReached(TRUE) THEN log \o FlushLog(search_id, flushOk)
                                                  ELSE log)
                               \o <<Ev("skip_search", search_id, {})>>
                  /\ search_id' = search_id + 1
                  /\ UNCHANGED <<store, pc>>
             ELSE \/ LET kept == StripSearch(DETAILED_RESULTS, search_stats) IN
                       /\ store' = save_search_results(store, kept, search_id, now)
                       /\ log' = log \o FlushLog(search_id, flushOk)
                                     \o <<Ev("search_all", search_id, search_stats),
                                          Ev("save_search", search_id, kept)>>
                       /\ search_id' = search_id + 1
                       /\ UNCHANGED pc
                  \/ /\ log' = log \o FlushLog(search_id, flushOk)
                                   \o <<Ev("search_all_raised", search_id, {})>>
                     /\ pc' = AfterSearchRaises
                     /\ UNCHANGED <<store, search_id>>
    /\ KeepRunner
    /\ UNCHANGED <<sweepVars, milvus, analysis>>

\* the loop is exhausted: "Experiment stage: Done"
SearchDone ==
    /\ pc = "search"
    /\ search_id >= searchers
    /\ pc' = "done"
    /\ UNCHANGED <<store, search_id, log>>
    /\ KeepRunner
    /\ UNCHANGED <<sweepVars, milvus, analysis>>

\* delete_client(): self.uploader.delete_client()
DeleteUploader ==
    /\ pc \in {"idle"} \cup Ended
    /\ \E ok \in BOOLEAN :
        IF ok THEN /\ log' = Append(log, Ev("delete_uploader", NoId, {}))
                   /\ pc' = "delete_configurator"
              ELSE /\ log' = Append(log, Ev("delete_uploader_raised", NoId, {}))
                   /\ pc' = "delete_raised"
    /\ UNCHANGED <<store, search_id>>
    /\ KeepRunner
    /\ UNCHANGED <<sweepVars, milvus, analysis>>

\* self.configurator.delete_client()
DeleteConfigurator ==
    /\ pc = "delete_configurator"
    /\ \E ok \in BOOLEAN :
        IF ok THEN /\ log' = Append(log, Ev("delete_configurator", NoId, {}))
                   /\ pc' = "delete_searchers"
              ELSE /\ log' = Append(log, Ev("delete_configurator_raised", NoId, {}))
                   /\ pc' = "delete_raised"
    /\ search_id' = 0
    /\ UNCHANGED store
    /\ KeepRunner
    /\ UNCHANGED <<sweepVars, milvus, analysis>>

\* for s in self.searchers: s.delete_client() -- search_id is the position of s
DeleteSearcher ==
    /\ pc = "delete_searchers"
    /\ IF search_id < searchers
         THEN \E ok \in BOOLEAN :
                IF ok THEN /\ log' = Append(log, Ev("delete_searcher", search_id, {}))
                           /\ search_id' = search_id + 1
                           /\ UNCHANGED pc
                      ELSE /\ log' = Append(log, Ev("delete_searcher_raised", search_id, {}))
                           /\ pc' = "delete_raised"
                           /\ UNCHANGED search_id
         ELSE /\ pc' = "deleted"
              /\ UNCHANGED <<log, search_id>>
    /\ UNCHANGED store
    /\ KeepRunner
    /\ UNCHANGED <<sweepVars, milvus, analysis>>

\* a second passes on the clock datetime.now() reads
Tick ==
    /\ now < MaxTime
    /\ now' = now + 1
    /\ UNCHANGED <<store, backend, pc, flags, search_id, log, pre, prev, runsLeft>>
    /\ UNCHANGED <<sweepVars, milvus, analysis>>

\* ------------------------------------------------------------ Sweep driver
Datasets == 1..NumDatasets
Sizes == 1..NumSizes
Iterations == 0..(NumIters - 1)

FirstCell == [d |-> 1, s |-> 1, i |-> 0]

IsLastCell(c) == c.d = NumDatasets /\ c.s = NumSizes /\ c.i = NumIters - 1

\* the nested for loops of test(): iterations innermost, then sizes, then datasets
NextCell(c) ==
    IF c.i < NumIters - 1 THEN [c EXCEPT !.i = c.i + 1]
    ELSE IF c.s < NumSizes THEN [c EXCEPT !.s = c.s + 1, !.i = 0]
    ELSE [d |-> c.d + 1, s |-> 1, i |-> 0]

SEv(op) == [op |-> op, cell |-> cell]

Ops(l) == {l[k].op : k \in 1..Len(l)}

Count(l, op) == Cardinality({k \in 1..Len(l) : l[k].op = op})

\* variant: the exception is swallowed and test() goes on to run_profile
OnRaiseGoOn == "rp_flush"

\* variant: no finally block
OnRaiseLeave == "aborted"

\* try: ... finally: stop_docker_containers(size) -- where control goes when a
\* statement of the try body raises
OnRaise == "finally_stop"

\* variant: the exception is caught per cell
Swallowed(pending) == FALSE

\* the try statement of test() has no except clause: an exception pending when
\* the finally block ends is re-raised and leaves test()
Propagates(pending) == pending

\* where test() goes when the finally block of a cell has run
AfterFinally(c, pending, stopRaised) ==
    IF Propagates(pending) \/ stopRaised THEN "aborted"
    ELSE IF IsLastCell(c) THEN "finished"
    ELSE IF driver = "perf" /\ NextCell(c).d # c.d THEN "clear"
    ELSE "start"

\* a statement of the try body raised
Raise(op) ==
    /\ slog' = Append(slog, SEv(op))
    /\ exc' = TRUE
    /\ spc' = OnRaise

\* clear_all_collections(): remove_volumes for every size (perf, per dataset)
ClearAllCollections ==
    /\ spc = "clear"
    /\ \/ /\ volumes' = {}
          /\ spc' = "start"
       \/ /\ volumes # {}
          /\ spc' = "aborted"
          /\ UNCHANGED volumes
    /\ UNCHANGED <<driver, cell, exc, is_exist, container, connected, profiler, outcome, slog>>
    /\ UNCHANGED <<runnerVars, milvus, analysis>>

\* variant: the failed check after the launch is only printed
StartNeverRaises(running) == FALSE

\* if container_name not in result.stdout: raise Exception(...)
StartRaises(running) == ~running

\* variant: the directory is looked up after the launch has created it
IsExistAfterLaunch(vols, size) == TRUE

\* is_exist = os.path.exists(volume_path), taken before the launch (perf)
IsExist(vols, size) == size \in vols

\* variant: the upload runs in every cell
UploadAlways(ret) == TRUE

\* if not is_exist: upload_dataset(...) (perf)
UploadNeeded(ret) == ~ret

\* start_docker_containers(size)
StartContainers ==
    /\ spc = "start"
    /\ LET begun == <<SEv("start"),
                      SEv(IF cell.s \in volumes THEN "volumes_exist" ELSE "volumes_absent")>>
           wiped == IF driver = "probe" THEN volumes \ {cell.s} ELSE volumes
           ret == driver = "perf" /\ IsExist(volumes, cell.s)
       IN
       \/ \* sudo rm -rf volumes fails (probe only, when the directory exists)
          /\ driver = "probe" /\ cell.s \in volumes
          /\ slog' = begun \o <<SEv("rm_raised"), SEv("start_raised")>>
          /\ exc' = TRUE /\ spc' = OnRaise
          /\ UNCHANGED <<is_exist, container, volumes>>
       \/ \* docker compose up -d fails
          /\ slog' = begun \o <<SEv("launch_raised"), SEv("start_raised")>>
          /\ exc' = TRUE /\ spc' = OnRaise
          /\ volumes' = wiped
          /\ UNCHANGED <<is_exist, container>>
       \/ \* launched; docker ps tells whether the container is running
          \E running \in BOOLEAN :
            /\ container' = IF running THEN "running" ELSE "not_running"
            /\ volumes' = wiped \cup {cell.s}
            /\ IF StartRaises(running)
                 THEN /\ slog' = begun \o <<SEv("launch"), SEv("start_raised")>>
                      /\ exc' = TRUE /\ spc' = OnRaise
                      /\ UNCHANGED is_exist
                 ELSE /\ slog' = begun \o <<SEv("launch"), SEv("started")>>
                      /\ is_exist' = ret
                      /\ spc' = IF driver = "perf" /\ ~UploadNeeded(ret)
                                  THEN "confirm_loaded" ELSE "upload"
                      /\ UNCHANGED exc
    /\ UNCHANGED <<driver, cell, connected, profiler, outcome>>
    /\ UNCHANGED <<runnerVars, milvus, analysis>>

\* upload_dataset(dataset_name, engine_name)
UploadDataset ==
    /\ spc = "upload"
    /\ \/ \* sudo sync / drop_caches run with check=True and fail
          /\ slog' = slog \o <<SEv("upload_dataset"), SEv("flush_raised")>>
          /\ exc' = TRUE /\ spc' = OnRaise
       \/ \* the upload command fails
          /\ slog' = slog \o <<SEv("upload_dataset"), SEv("flush"), SEv("upload"),
                                SEv("upload_raised")>>
          /\ exc' = TRUE /\ spc' = OnRaise
       \/ /\ slog' = slog \o <<SEv("upload_dataset"), SEv("flush"), SEv("upload")>>
          /\ spc' = IF driver = "perf" THEN "confirm_loaded" ELSE "wait_connect"
          /\ UNCHANGED exc
    /\ UNCHANGED <<driver, cell, is_exist, container, volumes, connected, profiler, outcome>>
    /\ UNCHANGED <<runnerVars, milvus, analysis>>

\* confirm_loaded(dataset_name, engine_name, size) (perf)
ConfirmLoaded ==
    /\ spc = "confirm_loaded"
    /\ \/ Raise("confirm_loaded_raised")
       \/ /\ slog' = Append(slog, SEv("confirm_loaded"))
          /\ spc' = "perf_run"
          /\ UNCHANGED exc
    /\ UNCHANGED <<driver, cell, is_exist, container, volumes, connected, profiler, outcome>>
    /\ UNCHANGED <<runnerVars, milvus, analysis>>

\* what the server can report: an empty dict, or both row counts
EmptyDict == [k \in {} |-> 0]

ProgressReports ==
    {EmptyDict} \cup
    {[total_rows |-> t, indexed_rows |-> i] : t \in 0..MaxRows, i \in 0..MaxRows}

CompactionStates == {"Executing", "Completed"}

\* progress.get(key, 0)
Get(d, key) == IF key \in DOMAIN d THEN d[key] ELSE 0

\* wait_for_indexing_completion(): connections.connect(...)
WaitConnect ==
    /\ spc = "wait_connect"
    /\ \/ /\ slog' = slog \o <<SEv("wait"), SEv("connect_raised")>>
          /\ exc' = TRUE /\ spc' = OnRaise
          /\ UNCHANGED <<connected, milvus>>
       \/ /\ slog' = slog \o <<SEv("wait"), SEv("connect")>>
          /\ connected' = TRUE
          /\ spc' = "wait_has"
          /\ index_progress' \in {r \in ProgressReports :
                                    Get(r, "indexed_rows") <= Get(r, "total_rows")}
          /\ compaction' \in CompactionStates
          /\ polls' = 0
          /\ UNCHANGED exc
    /\ UNCHANGED <<driver, cell, is_exist, container, volumes, profiler, outcome>>
    /\ UNCHANGED <<runnerVars, analysis>>

\* if not utility.has_collection(...): disconnect; return
WaitHasCollection ==
    /\ spc = "wait_has"
    /\ \/ /\ Raise("has_collection_raised")
          /\ UNCHANGED connected
       \/ /\ slog' = slog \o <<SEv("no_collection"), SEv("disconnect")>>
          /\ connected' = FALSE
          /\ spc' = "rp_flush"
          /\ UNCHANGED exc
       \/ /\ slog' = Append(slog, SEv("has_collection"))
          /\ spc' = "wait_flush"
          /\ UNCHANGED <<exc, connected>>
    /\ UNCHANGED <<driver, cell, is_exist, container, volumes, profiler, outcome>>
    /\ UNCHANGED <<runnerVars, milvus, analysis>>

\* except Exception: print(...); finally: connections.disconnect("default")
WaitCaught(op) ==
    /\ slog' = slog \o <<SEv(op), SEv("wait_error_printed"), SEv("disconnect")>>
    /\ connected' = FALSE
    /\ spc' = "rp_flush"
    /\ polls' = 0
    /\ UNCHANGED <<index_progress, compaction>>

\* collection = Collection(...); collection.flush()
WaitFlush ==
    /\ spc = "wait_flush"
    /\ \/ WaitCaught("flush_collection_raised")
       \/ /\ slog' = Append(slog, SEv("flush_collection"))
          /\ spc' = "wait_index"
          /\ UNCHANGED <<connected, milvus>>
    /\ UNCHANGED <<driver, cell, exc, is_exist, container, volumes, profiler, outcome>>
    /\ UNCHANGED <<runnerVars, analysis>>

\* the server indexes one more row
BackendIndexes ==
    /\ spc = "wait_index"
    /\ DOMAIN index_progress # {}
    /\ index_progress.indexed_rows < index_progress.total_rows
    /\ index_progress' = [index_progress EXCEPT !.indexed_rows = @ + 1]
    /\ UNCHANGED <<compaction, polls>>
    /\ UNCHANGED <<sweepVars, runnerVars, analysis>>

\* the server finishes the compaction
BackendCompacts ==
    /\ spc = "wait_compact"
    /\ compaction = "Executing"
    /\ compaction' = "Completed"
    /\ UNCHANGED <<index_progress, polls>>
    /\ UNCHANGED <<sweepVars, runnerVars, analysis>>

\* variant: the loop is left whatever the poll reports
IndexCompleteAlways(progress) == TRUE

\* if not progress or total_rows == indexed_rows: break
IndexComplete(progress) ==
    \/ DOMAIN progress = {}
    \/ Get(progress, "total_rows") = Get(progress, "indexed_rows")

\* what the poll that ended the loop showed, the counts read as the code reads
\* them: progress.get("total_rows", 0) and progress.get("indexed_rows", 0)
IndexObserved(progress) ==
    IF Get(progress, "total_rows") = Get(progress, "indexed_rows")
      THEN "index_complete"
      ELSE "index_pending"

\* variant: the loops give up after MaxPolls sleeps
GivesUpAtMax(n) == n >= MaxPolls

\* while True: -- neither polling loop has a bound or a timeout
GivesUp(n) == FALSE

\* while True: progress = utility.index_building_progress(...); ...; time.sleep(10)
WaitIndexPoll ==
    /\ spc = "wait_index"
    /\ IF IndexComplete(index_progress) \/ GivesUp(polls)
         THEN /\ slog' = Append(slog, SEv(IndexObserved(index_progress)))
              /\ spc' = "wait_compact"
              /\ polls' = 0
         ELSE /\ polls' = IF polls < MaxPolls THEN polls + 1 ELSE polls
              /\ UNCHANGED <<slog, spc>>
    /\ UNCHANGED <<connected, index_progress, compaction>>
    /\ UNCHANGED <<driver, cell, exc, is_exist, container, volumes, profiler, outcome>>
    /\ UNCHANGED <<runnerVars, analysis>>

\* utility.index_building_progress raises
WaitIndexRaises ==
    /\ spc = "wait_index"
    /\ WaitCaught("index_progress_raised")
    /\ UNCHANGED <<driver, cell, exc, is_exist, container, volumes, profiler, outcome>>
    /\ UNCHANGED <<runnerVars, analysis>>

\* the index-progress polling loop
WaitIndex == WaitIndexPoll \/ WaitIndexRaises

\* while True: compaction_state = collection.get_compaction_state(); ...; time.sleep(10)
WaitCompactionPoll ==
    /\ spc = "wait_compact"
    /\ IF compaction = "Completed" \/ GivesUp(polls)
         THEN \* break, then the finally block disconnects
              /\ slog' = slog \o <<SEv(IF compaction = "Completed"
                                          THEN "compaction_complete"
                                          ELSE "compaction_pending"),
                                     SEv("disconnect")>>
              /\ connected' = FALSE
              /\ spc' = "rp_flush"
              /\ polls' = 0
         ELSE /\ polls' = IF polls < MaxPolls THEN polls + 1 ELSE polls
              /\ UNCHANGED <<slog, spc, connected>>
    /\ UNCHANGED <<index_progress, compaction>>
    /\ UNCHANGED <<driver, cell, exc, is_exist, container, volumes, profiler, outcome>>
    /\ UNCHANGED <<runnerVars, analysis>>

\* collection.get_compaction_state raises
WaitCompactionRaises ==
    /\ spc = "wait_compact"
    /\ WaitCaught("compaction_state_raised")
    /\ UNCHANGED <<driver, cell, exc, is_exist, container, volumes, profiler, outcome>>
    /\ UNCHANGED <<runnerVars, analysis>>

\* the compaction polling loop
WaitCompaction == WaitCompactionPoll \/ WaitCompactionRaises

\* ---------------------------------------------------- Profiling Coordinator
\* run_profile (run_profile.py): the cache flush that precedes the try block
ProfileFlush ==
    /\ spc = "rp_flush"
    /\ \/ Raise("flush_raised")
       \/ /\ slog' = slog \o <<SEv("run_profile"), SEv("flush")>>
          /\ spc' = "rp_popen"
          /\ UNCHANGED exc
    /\ UNCHANGED <<driver, cell, is_exist, container, volumes, connected, profiler, outcome>>
    /\ UNCHANGED <<runnerVars, milvus, analysis>>

\* variant: the teardown in the success path only
TeardownOnSuccess(launched, out) == launched /\ out = "ok"

\* finally: if profiler_process: -- the teardown runs when Popen returned a process
TeardownRuns(launched, out) == launched

\* variant: the failure of the query stage is only printed
NeverReraises(out) == FALSE

\* except CalledProcessError: raise Exception(...); except Exception: raise Exception(...)
Reraises(out) == out # "ok"

\* profiler_process = subprocess.Popen(profile_cmd, cwd=run_path)
ProfilePopen ==
    /\ spc = "rp_popen"
    /\ \/ \* Popen raises: except Exception re-raises, the finally block finds None
          /\ slog' = slog \o <<SEv("popen_raised"), SEv("run_profile_raised")>>
          /\ exc' = TRUE /\ spc' = OnRaise
          /\ UNCHANGED <<profiler, outcome>>
       \/ /\ slog' = Append(slog, SEv("popen"))
          /\ profiler' = "running"
          /\ outcome' = "none"
          /\ spc' = "rp_run"
          /\ UNCHANGED exc
    /\ UNCHANGED <<driver, cell, is_exist, container, volumes, connected>>
    /\ UNCHANGED <<runnerVars, milvus, analysis>>

\* how run_profile is left once the try/except/finally is over
LeaveProfile(l, out) ==
    IF ~Reraises(out)
      THEN /\ slog' = Append(l, SEv("run_profile_returned"))
           /\ spc' = "stop"
           /\ UNCHANGED exc
      ELSE /\ slog' = Append(l, SEv("run_profile_raised"))
           /\ exc' = TRUE
           /\ spc' = OnRaise

\* subprocess.run(cmd, cwd=run_path, check=True): the query stage
QueryStage ==
    /\ spc = "rp_run"
    /\ \E out \in {"ok", "failed", "exception"} :
        /\ outcome' = out
        /\ IF TeardownRuns(profiler # "none", out)
             THEN /\ slog' = Append(slog, SEv("query_" \o out))
                  /\ spc' = "rp_terminate"
                  /\ UNCHANGED exc
             ELSE LeaveProfile(Append(slog, SEv("query_" \o out)), out)
    /\ \/ UNCHANGED profiler
       \/ \* the tracer may have exited on its own meanwhile
          profiler' = "exited"
    /\ UNCHANGED <<driver, cell, is_exist, container, volumes, connected>>
    /\ UNCHANGED <<runnerVars, milvus, analysis>>

\* profiler_process.terminate()
Terminate ==
    /\ spc = "rp_terminate"
    /\ slog' = Append(slog, SEv("terminate"))
    /\ spc' = "rp_wait"
    /\ UNCHANGED <<driver, cell, exc, is_exist, container, volumes, connected, profiler, outcome>>
    /\ UNCHANGED <<runnerVars, milvus, analysis>>

\* the tracer process exits once it has been sent the graceful signal; a
\* tracer that ignores the signal never takes this step
TracerExits ==
    /\ spc = "rp_wait"
    /\ profiler = "running"
    /\ profiler' = "exited"
    /\ UNCHANGED <<driver, spc, cell, exc, is_exist, container, volumes, connected,
                   outcome, slog>>
    /\ UNCHANGED <<runnerVars, milvus, analysis>>

\* variant: wait() without a timeout
NeverExpires(exited) == FALSE

\* profiler_process.wait(timeout=5) raises TimeoutExpired when the tracer has
\* not exited by the end of the interval
TimeoutExpires(exited) == ~exited

\* variant: the kill is sent whether or not the tracer exited
KillAlways(timedOut) == TRUE

\* except subprocess.TimeoutExpired: ... profiler_process.kill()
KillAfterWait(timedOut) == timedOut

\* profiler_process.wait(timeout=5); except TimeoutExpired: profiler_process.kill()
WaitProfiler ==
    /\ spc = "rp_wait"
    /\ LET exited == profiler # "running"
           timedOut == TimeoutExpires(exited)
           waited == IF timedOut THEN "wait_timeout" ELSE "wait_exited"
       IN /\ exited \/ timedOut
          /\ IF KillAfterWait(timedOut)
               THEN /\ profiler' = "killed"
                    /\ LeaveProfile(slog \o <<SEv(waited), SEv("kill")>>, outcome)
               ELSE /\ profiler' = "exited"
                    /\ LeaveProfile(Append(slog, SEv(waited)), outcome)
    /\ UNCHANGED <<driver, cell, is_exist, container, volumes, connected, outcome>>
    /\ UNCHANGED <<runnerVars, milvus, analysis>>

\* run_profile (run_profile_perf.py): perf record wraps the query command
PerfRunProfile ==
    /\ spc = "perf_run"
    /\ \/ Raise("flush_raised")
       \/ /\ slog' = slog \o <<SEv("run_profile"), SEv("flush"), SEv("query_failed"),
                               SEv("run_profile_raised")>>
          /\ exc' = TRUE /\ spc' = OnRaise
       \/ /\ slog' = slog \o <<SEv("run_profile"), SEv("flush"), SEv("query_ok"),
                               SEv("run_profile_returned")>>
          /\ spc' = "stop"
          /\ UNCHANGED exc
    /\ UNCHANGED <<driver, cell, is_exist, container, volumes, connected, profiler, outcome>>
    /\ UNCHANGED <<runnerVars, milvus, analysis>>

\* ------------------------------------------------- stop_docker_containers
\* variant: a container that is still listed is an error
LingeringRaises(left) == left = "lingering"

\* if container_name in result.stdout: print("Warning: ...") -- nothing is raised
WarningRaises(left) == FALSE

\* variant: the call returns with the containers left as they are
StopWithoutTeardown(raised) ==
    /\ ~raised
    /\ slog' = slog \o <<SEv("stop"), SEv("stopped")>>
    /\ UNCHANGED <<container, volumes>>

\* stop_docker_containers(size); raised tells whether it raised
StopBody(raised) ==
    \/ \* docker compose down -v fails
       /\ raised
       /\ slog' = slog \o <<SEv("stop"), SEv("down_raised"), SEv("stop_raised")>>
       /\ UNCHANGED <<container, volumes>>
    \/ \* torn down; a container that is still listed is only warned about
       \E left \in {"absent", "lingering"}, rmOk \in BOOLEAN :
          LET warning == IF left = "lingering" THEN <<SEv("stop_warning")>> ELSE <<>>
              \* run_profile.py removes the volumes directory, with check=True
              rmRuns == driver = "probe" /\ cell.s \in volumes
          IN /\ rmOk \/ rmRuns
             /\ container' = left
             /\ IF WarningRaises(left)
                  THEN /\ raised
                       /\ slog' = slog \o <<SEv("stop")>> \o warning \o <<SEv("stop_raised")>>
                       /\ UNCHANGED volumes
                  ELSE IF ~rmOk
                  THEN /\ raised
                       /\ slog' = slog \o <<SEv("stop")>> \o warning
                                       \o <<SEv("rm_raised"), SEv("stop_raised")>>
                       /\ UNCHANGED volumes
                  ELSE /\ ~raised
                       /\ slog' = slog \o <<SEv("stop")>> \o warning \o <<SEv("stopped")>>
                       /\ volumes' = IF driver = "probe" THEN volumes \ {cell.s} ELSE volumes

\* the stop_docker_containers(size) that ends the try body
StopContainers ==
    /\ spc = "stop"
    /\ \E raised \in BOOLEAN :
        /\ StopBody(raised)
        /\ exc' = raised
        /\ spc' = IF raised THEN OnRaise ELSE "finally_stop"
    /\ UNCHANGED <<driver, cell, is_exist, connected, profiler, outcome>>
    /\ UNCHANGED <<runnerVars, milvus, analysis>>

\* finally: stop_docker_containers(size), then the next cell or the pending exception
FinallyStop ==
    /\ spc = "finally_stop"
    /\ \E raised \in BOOLEAN :
        /\ StopBody(raised)
        /\ spc' = AfterFinally(cell, exc, raised)
        /\ cell' = IF AfterFinally(cell, exc, raised) \in {"start", "clear"}
                     THEN NextCell(cell) ELSE cell
        /\ exc' = IF AfterFinally(cell, exc, raised) = "aborted" THEN TRUE ELSE FALSE
    /\ UNCHANGED <<driver, is_exist, connected, profiler, outcome>>
    /\ UNCHANGED <<runnerVars, milvus, analysis>>

\* ------------------------------------------------- estimate_size.py test()
\* cell.d is the dataset and cell.s the engine configuration; cell.i stays 0
EstIsLastCell(c) == c.d = NumDatasets /\ c.s = NumSizes

EstNextCell(c) ==
    IF c.s < NumSizes THEN [c EXCEPT !.s = c.s + 1]
    ELSE [d |-> c.d + 1, s |-> 1, i |-> 0]

\* variant: start_docker_containers() called inside the try statement
EstAfterStartRaisesInTry == "est_finally"

\* start_docker_containers() is called before the try statement of test():
\* its exception leaves test() without the finally block
EstAfterStartRaises == "aborted"

KeepSweep == UNCHANGED <<driver, cell, is_exist, connected, profiler, outcome>>

\* start_docker_containers(): rmtree of the volumes, docker compose up -d,
\* docker ps
EstStart ==
    /\ spc = "est_start"
    /\ LET begun == <<SEv("start")>> IN
       \/ \* shutil.rmtree(volume_path) fails
          /\ volumes # {}
          /\ slog' = begun \o <<SEv("rm_raised"), SEv("start_raised")>>
          /\ exc' = TRUE /\ spc' = EstAfterStartRaises
          /\ UNCHANGED <<container, volumes>>
       \/ \* docker compose up -d fails
          /\ slog' = begun \o <<SEv("launch_raised"), SEv("start_raised")>>
          /\ exc' = TRUE /\ spc' = EstAfterStartRaises
          /\ volumes' = {}
          /\ UNCHANGED container
       \/ \* launched; docker ps tells whether the container is running
          \E running \in BOOLEAN :
            /\ container' = IF running THEN "running" ELSE "not_running"
            /\ volumes' = {1}
            /\ IF StartRaises(running)
                 THEN /\ slog' = begun \o <<SEv("launch"), SEv("start_raised")>>
                      /\ exc' = TRUE /\ spc' = EstAfterStartRaises
                 ELSE /\ slog' = begun \o <<SEv("launch"), SEv("started")>>
                      /\ spc' = "est_upload"
                      /\ UNCHANGED exc
    /\ KeepSweep
    /\ UNCHANGED <<runnerVars, milvus, analysis>>

\* a statement of the try body of estimate_size.test() raised
EstRaise(op) ==
    /\ slog' = Append(slog, SEv(op))
    /\ exc' = TRUE
    /\ spc' = "est_finally"

\* upload_dataset(dataset_name, engine_name)
EstUpload ==
    /\ spc = "est_upload"
    /\ \/ EstRaise("upload_raised")
       \/ /\ slog' = Append(slog, SEv("upload"))
          /\ spc' = "est_wait"
          /\ UNCHANGED exc
    /\ UNCHANGED <<container, volumes>>
    /\ KeepSweep
    /\ UNCHANGED <<runnerVars, milvus, analysis>>

\* wait_for_indexing_completion(): it returns, or connect or has_collection,
\* called before its try statement, raise
EstWait ==
    /\ spc = "est_wait"
    /\ \/ EstRaise("connect_raised")
       \/ EstRaise("has_collection_raised")
       \/ /\ slog' = Append(slog, SEv("wait_returned"))
          /\ spc' = "est_measure"
          /\ UNCHANGED exc
    /\ UNCHANGED <<container, volumes>>
    /\ KeepSweep
    /\ UNCHANGED <<runnerVars, milvus, analysis>>

\* result = estimate_size(...): a failing du is recorded as "Error";
\* save_result(...) writes the JSON file or raises
EstMeasureAndSave ==
    /\ spc = "est_measure"
    /\ \E duOk \in BOOLEAN :
        \/ /\ slog' = slog \o <<SEv(IF duOk THEN "measured" ELSE "measure_error"),
                                 SEv("save_raised")>>
           /\ exc' = TRUE
           /\ spc' = "est_finally"
        \/ /\ slog' = slog \o <<SEv(IF duOk THEN "measured" ELSE "measure_error"),
                                 SEv("saved")>>
           /\ spc' = "est_finally"
           /\ UNCHANGED exc
    /\ UNCHANGED <<container, volumes>>
    /\ KeepSweep
    /\ UNCHANGED <<runnerVars, milvus, analysis>>

\* finally: stop_docker_containers(), then the next cell or the pending exception
EstFinallyStop ==
    /\ spc = "est_finally"
    /\ \E raised \in BOOLEAN :
        /\ StopBody(raised)
        /\ LET next == IF Propagates(exc) \/ raised THEN "aborted"
                       ELSE IF EstIsLastCell(cell) THEN "finished"
                       ELSE "est_start"
           IN /\ spc' = next
              /\ cell' = IF next = "est_start" THEN EstNextCell(cell) ELSE cell
              /\ exc' = (next = "aborted")
    /\ UNCHANGED <<driver, is_exist, connected, profiler, outcome>>
    /\ UNCHANGED <<runnerVars, milvus, analysis>>

\* ------------------------------------------------- trace files and summary
\* A line of a trace text file: whether it starts with a timestamp (\d+\.\d+),
\* its COMM field as a sequence of characters, and its EVENT field.
\* "a" stands for a character of the class [\w.-], "/" for any other character
\* (kernel threads are named like kworker/0:1).
Alphabet == {"a", "/"}
WordChars == {"a"}
Comms == UNION {[1..n -> Alphabet] : n \in 1..MaxComm}
EventKinds == {"Major Fault", "Disk IO"}
EventLines == [time : {TRUE}, comm : Comms, event : EventKinds]

\* "TIME(s) COMM PID EVENT DETAILS"
Header == [time |-> FALSE, comm |-> <<>>, event |-> "TIME(s) COMM PID EVENT DETAILS"]
\* "Tracing system-wide major faults & disk IO... Ctrl-C to stop."
Banner == [time |-> FALSE, comm |-> <<>>, event |-> "Tracing"]

\* trace_system_fault.py: the header, the banner, then one line per event
WriteBpf(evs) == <<Header, Banner>> \o evs

\* parse_perf_text: the header, then one line per event
WritePerf(evs) == <<Header>> \o evs

\* the tracer writes its text file
WriteTrace ==
    /\ apc = "write"
    /\ trace_file' = IF variant = "bpf" THEN WriteBpf(events) ELSE WritePerf(events)
    /\ apc' = "parse"
    /\ UNCHANGED <<variant, events, event_counter, file_counts, aggregated_data, csv>>
    /\ UNCHANGED <<runnerVars, sweepVars, milvus, perfVars, tracerVars>>

\* lines parse_log_file reads with next(f) before it applies the pattern
HeaderLines == 2

\* log_pattern.match(line.strip()):
\* ^\d+\.\d+\s+([\w.-]+)\s+(\d+)\s+([\w\s]+?)\s*(?:Size=.*|$)
Matches(line) ==
    /\ line.time
    /\ Len(line.comm) > 0
    /\ \A k \in 1..Len(line.comm) : line.comm[k] \in WordChars

\* f"{comm}-{event.strip()}"
KeyOf(line) == <<line.comm, line.event>>

\* lines of the file the pattern is applied to: none when next(f) raises
ReadAfterHeader(file) ==
    IF Len(file) < HeaderLines THEN {} ELSE (HeaderLines + 1)..Len(file)

\* parse_log_file(file_path): the Counter of the matching lines
parse_log_file(file) ==
    LET counted == {k \in ReadAfterHeader(file) : Matches(file[k])}
    IN  [key \in {KeyOf(file[k]) : k \in counted} |->
            Cardinality({k \in counted : KeyOf(file[k]) = key})]

ParseLog ==
    /\ apc = "parse"
    /\ event_counter' = parse_log_file(trace_file)
    /\ apc' = "parsed"
    /\ UNCHANGED <<variant, events, trace_file, file_counts, aggregated_data, csv>>
    /\ UNCHANGED <<runnerVars, sweepVars, milvus, perfVars, tracerVars>>

\* event keys of the summary, as parse_log_file names them
SummaryKeys == {"milvus-Major Fault", "milvus-Disk IO"}

\* a Counter parse_log_file can return: positive counts for some keys
Counters == UNION {[K -> 1..MaxCount] : K \in SUBSET SummaryKeys}

\* main(): the loop over the files, aggregated_data[event_key][col_header] = count
Aggregate ==
    /\ apc = "aggregate"
    /\ LET all_columns == DOMAIN file_counts
           all_comm_events == UNION {DOMAIN file_counts[r] : r \in all_columns}
       IN  /\ aggregated_data' =
                [key \in all_comm_events |->
                    [r \in {c \in all_columns : key \in DOMAIN file_counts[c]} |->
                        file_counts[r][key]]]
           /\ apc' = IF all_comm_events = {} THEN "no_data" ELSE "filter"
    /\ UNCHANGED <<variant, events, trace_file, event_counter, file_counts, csv>>
    /\ UNCHANGED <<runnerVars, sweepVars, milvus, perfVars, tracerVars>>

IsPresentInAnyRun(data, comm_event, columns) ==
    \E size_iteration \in columns : Get(data[comm_event], size_iteration) # 0

\* the filtering step: a non-zero value in all dataset-size-iterations
IsPresentInAllRuns(data, comm_event, columns) ==
    \A size_iteration \in columns : Get(data[comm_event], size_iteration) # 0

\* main(): the filter and the rows of summary_transposed.csv
WriteCsv ==
    /\ apc = "filter"
    /\ LET all_columns == DOMAIN file_counts
           common_comm_events ==
               {comm_event \in DOMAIN aggregated_data :
                   IsPresentInAllRuns(aggregated_data, comm_event, all_columns)}
       IN  csv' = [row_header \in all_columns |->
                      [col_header \in common_comm_events |->
                          Get(aggregated_data[col_header], row_header)]]
    /\ apc' = "written"
    /\ UNCHANGED <<variant, events, trace_file, event_counter, file_counts,
                   aggregated_data>>
    /\ UNCHANGED <<runnerVars, sweepVars, milvus, perfVars, tracerVars>>

\* --------------------------------------- run_profile (run_profile_perf.py)
Done(op) == \E k \in 1..Len(plog) : plog[k] = op

KeepAnalysis == UNCHANGED <<variant, events, event_counter, file_counts,
                            aggregated_data, csv, tracerVars>>

\* if os.path.exists(perf_data_path): sudo rm -f (check=True)
PerfRemoveStale ==
    /\ apc = "perf_begin"
    /\ IF perf_data = "stale"
         THEN \/ /\ perf_data' = "absent"
                 /\ plog' = Append(plog, "stale_removed")
                 /\ apc' = "perf_flush"
              \/ /\ plog' = Append(plog, "rm_raised")
                 /\ apc' = "perf_raised"
                 /\ UNCHANGED perf_data
         ELSE /\ apc' = "perf_flush"
              /\ UNCHANGED <<perf_data, plog>>
    /\ UNCHANGED trace_file
    /\ KeepAnalysis
    /\ UNCHANGED <<runnerVars, sweepVars, milvus>>

\* sudo sync; echo 3 > drop_caches, both with check=True
PerfFlush ==
    /\ apc = "perf_flush"
    /\ \E ok \in BOOLEAN :
        /\ plog' = Append(plog, IF ok THEN "flush" ELSE "flush_raised")
        /\ apc' = IF ok THEN "perf_record" ELSE "perf_raised"
    /\ UNCHANGED <<perf_data, trace_file>>
    /\ KeepAnalysis
    /\ UNCHANGED <<runnerVars, sweepVars, milvus>>

\* variant: a failed command is only reported
ConvertReachedAlways(cmdOk) == TRUE

\* subprocess.run(profile_and_run_cmd, check=True) inside try/except that
\* re-raises: the statements after it are reached only when it succeeded
ConvertReached(cmdOk) == cmdOk

\* perf record -o perf_data_path -- run.py ...: the command, and whether perf
\* left a raw trace file
PerfRecord ==
    /\ apc = "perf_record"
    /\ \E cmdOk \in BOOLEAN, wrote \in BOOLEAN :
        /\ perf_data' = IF wrote THEN "recorded" ELSE perf_data
        /\ plog' = plog \o <<IF cmdOk THEN "cmd_ok" ELSE "cmd_failed">>
                         \o (IF wrote THEN <<"raw_recorded">> ELSE <<>>)
        /\ apc' = IF ConvertReached(cmdOk) THEN "perf_convert" ELSE "perf_raised"
    /\ UNCHANGED trace_file
    /\ KeepAnalysis
    /\ UNCHANGED <<runnerVars, sweepVars, milvus>>

\* if os.path.exists(perf_data_path): chown, perf script, parse_perf_text,
\* write the text file; then remove the raw trace file
PerfConvert ==
    /\ apc = "perf_convert"
    /\ IF perf_data \in {"stale", "recorded"}
         THEN \/ \* chown or perf script fails: CalledProcessError is printed
                 /\ plog' = plog \o <<"raw_found", "convert_failed", "raw_removed">>
                 /\ perf_data' = "removed"
                 /\ apc' = "perf_returned"
                 /\ UNCHANGED trace_file
              \/ \* open(output_path, "w") fails: not a CalledProcessError
                 /\ plog' = plog \o <<"raw_found", "write_raised">>
                 /\ apc' = "perf_raised"
                 /\ UNCHANGED <<perf_data, trace_file>>
              \/ /\ trace_file' = WritePerf(events)
                 /\ plog' = plog \o <<"raw_found", "text_written", "raw_removed">>
                 /\ perf_data' = "removed"
                 /\ apc' = "perf_returned"
         ELSE /\ plog' = Append(plog, "raw_missing")
              /\ apc' = "perf_returned"
              /\ UNCHANGED <<perf_data, trace_file>>
    /\ KeepAnalysis
    /\ UNCHANGED <<runnerVars, sweepVars, milvus>>

\* ------------------------------------------- trace_system_fault.py process
KeepSummary == UNCHANGED <<variant, events, event_counter, file_counts,
                           aggregated_data, csv, perfVars>>

\* output_file = open(args.output, 'w'); print(header); ...; print(banner):
\* print() leaves the lines in the buffer of the file object
TracerStart ==
    /\ apc = "tr_start"
    /\ out_buffer' = <<Header, Banner>>
    /\ apc' = "tracing"
    /\ UNCHANGED <<trace_file, signal>>
    /\ KeepSummary
    /\ UNCHANGED <<runnerVars, sweepVars, milvus>>

\* event lines that print_fault_event / print_io_event have printed so far
Printed == Len(trace_file) + Len(out_buffer) - 2

\* b.perf_buffer_poll() calls print_fault_event or print_io_event
TracerPrint ==
    /\ apc = "tracing"
    /\ Printed < Len(events)
    /\ out_buffer' = Append(out_buffer, events[Printed + 1])
    /\ UNCHANGED <<apc, trace_file, signal>>
    /\ KeepSummary
    /\ UNCHANGED <<runnerVars, sweepVars, milvus>>

\* the buffer of the file object is full and is written to the file
TracerBufferFull ==
    /\ apc = "tracing"
    /\ out_buffer # <<>>
    /\ trace_file' = trace_file \o out_buffer
    /\ out_buffer' = <<>>
    /\ UNCHANGED <<apc, signal>>
    /\ KeepSummary
    /\ UNCHANGED <<runnerVars, sweepVars, milvus>>

Signals == {"SIGINT", "SIGTERM", "SIGKILL"}

\* except KeyboardInterrupt: output_file.close(); exit() -- SIGINT is the only
\* signal the script handles; SIGTERM and SIGKILL end the process at once
ClosesOn(sig) == sig = "SIGINT"

\* Ctrl-C, profiler_process.terminate() or profiler_process.kill() arrives
\* while the tracer polls; out_buffer keeps the lines that were lost
TracerSignalled ==
    /\ apc = "tracing"
    /\ \E sig \in Signals :
        /\ signal' = sig
        /\ IF ClosesOn(sig)
             THEN /\ trace_file' = trace_file \o out_buffer
                  /\ out_buffer' = <<>>
             ELSE UNCHANGED <<trace_file, out_buffer>>
    /\ apc' = "tr_exited"
    /\ KeepSummary
    /\ UNCHANGED <<runnerVars, sweepVars, milvus>>

\* ------------------------------------------------------------ specifications
RunnerIdle ==
    /\ store = {}
    /\ now = 0
    /\ pc = "idle"
    /\ flags = DefaultFlags
    /\ search_id = 0
    /\ log = <<>>
    /\ pre = {}
    /\ prev = NoRun

AnalysisIdle ==
    /\ apc = "off"
    /\ variant = "bpf"
    /\ events = <<>>
    /\ trace_file = <<>>
    /\ event_counter = EmptyDict
    /\ file_counts = EmptyDict
    /\ aggregated_data = EmptyDict
    /\ csv = EmptyDict
    /\ perf_data = "absent"
    /\ plog = <<>>
    /\ out_buffer = <<>>
    /\ signal = "none"

SweepIdle ==
    /\ cell = FirstCell
    /\ exc = FALSE
    /\ is_exist = FALSE
    /\ container = "absent"
    /\ connected = FALSE
    /\ profiler = "none"
    /\ outcome = "none"
    /\ slog = <<>>
    /\ index_progress = EmptyDict
    /\ compaction = "Completed"
    /\ polls = 0

\* the runner, with the toggle off and a backend that returns every key
Init ==
    /\ RunnerIdle
    /\ searchers \in 0..MaxSearchers
    /\ DETAILED_RESULTS = FALSE
    /\ drop_caches = FALSE
    /\ has_ensure_loaded \in BOOLEAN
    /\ upload_stats = {"latencies", "count"}
    /\ search_stats = {"latencies", "precisions", "rps"}
    /\ runsLeft = MaxRuns
    /\ SweepIdle
    /\ AnalysisIdle
    /\ driver = "probe"
    /\ spc = "off"
    /\ volumes = {}

Next ==
    \/ RunExperiment
    \/ Configure
    \/ Upload
    \/ EnsureLoaded
    \/ SearchIteration
    \/ SearchDone
    \/ Tick

Spec == Init /\ [][Next]_vars

\* the runner, for either value of the toggle and every backend return
InitDetail ==
    /\ RunnerIdle
    /\ searchers \in 1..MaxSearchers
    /\ DETAILED_RESULTS \in BOOLEAN
    /\ drop_caches = FALSE
    /\ has_ensure_loaded \in BOOLEAN
    /\ upload_stats \in UploadReturns
    /\ search_stats \in SearchReturns
    /\ runsLeft = MaxDetailRuns
    /\ SweepIdle
    /\ AnalysisIdle
    /\ driver = "probe"
    /\ spc = "off"
    /\ volumes = {}

SpecDetail == InitDetail /\ [][Next]_vars

\* the runner with or without drop_caches, for an uploader without ensure_loaded
InitFlush ==
    /\ RunnerIdle
    /\ searchers \in 0..MaxSearchers
    /\ DETAILED_RESULTS = FALSE
    /\ drop_caches \in BOOLEAN
    /\ has_ensure_loaded = FALSE
    /\ upload_stats = {"latencies", "count"}
    /\ search_stats = {"latencies", "precisions", "rps"}
    /\ runsLeft = MaxFlushRuns
    /\ SweepIdle
    /\ AnalysisIdle
    /\ driver = "probe"
    /\ spc = "off"
    /\ volumes = {}

\* the uploader has no ensure_loaded here: its stage is never entered
FlushNext ==
    \/ RunExperiment
    \/ Configure
    \/ Upload
    \/ SearchIteration
    \/ SearchDone
    \/ Tick

SpecFlush == InitFlush /\ [][FlushNext]_vars

\* the runner and its delete_client
InitDelete ==
    /\ RunnerIdle
    /\ searchers \in 0..MaxSearchers
    /\ DETAILED_RESULTS = FALSE
    /\ drop_caches = FALSE
    /\ has_ensure_loaded \in BOOLEAN
    /\ upload_stats = {"latencies", "count"}
    /\ search_stats = {"latencies", "precisions", "rps"}
    /\ runsLeft = MaxDetailRuns
    /\ SweepIdle
    /\ AnalysisIdle
    /\ driver = "probe"
    /\ spc = "off"
    /\ volumes = {}

DeleteNext ==
    \/ Next
    \/ DeleteUploader
    \/ DeleteConfigurator
    \/ DeleteSearcher

SpecDelete == InitDelete /\ [][DeleteNext]_vars

\* the sweep drivers
SweepInit ==
    /\ RunnerIdle
    /\ searchers = 0
    /\ DETAILED_RESULTS = FALSE
    /\ drop_caches = FALSE
    /\ has_ensure_loaded = FALSE
    /\ upload_stats = {"latencies", "count"}
    /\ search_stats = {"latencies", "precisions", "rps"}
    /\ runsLeft = 0
    /\ SweepIdle
    /\ AnalysisIdle
    /\ driver \in {"probe", "perf"}
    /\ spc = IF driver = "perf" THEN "clear" ELSE "start"
    /\ volumes \in SUBSET Sizes

SweepNext ==
    \/ ClearAllCollections
    \/ StartContainers
    \/ UploadDataset
    \/ ConfirmLoaded
    \/ WaitConnect
    \/ WaitHasCollection
    \/ WaitFlush
    \/ WaitIndex
    \/ BackendIndexes
    \/ WaitCompaction
    \/ BackendCompacts
    \/ ProfileFlush
    \/ ProfilePopen
    \/ QueryStage
    \/ Terminate
    \/ TracerExits
    \/ WaitProfiler
    \/ PerfRunProfile
    \/ StopContainers
    \/ FinallyStop

SpecSweep == SweepInit /\ [][SweepNext]_vars

\* the interpreter goes on executing test(): every statement it has reached is
\* executed, a sleep ends, a wait with a timeout ends and a poll is answered.
\* Nothing is assumed of the tracer, of the server's indexing and compaction,
\* or of the failures.
SweepFairness ==
    /\ WF_vars(ClearAllCollections)
    /\ WF_vars(StartContainers)
    /\ WF_vars(UploadDataset)
    /\ WF_vars(ConfirmLoaded)
    /\ WF_vars(WaitConnect)
    /\ WF_vars(WaitHasCollection)
    /\ WF_vars(WaitFlush)
    /\ WF_vars(WaitIndexPoll)
    /\ WF_vars(WaitCompactionPoll)
    /\ WF_vars(ProfileFlush)
    /\ WF_vars(ProfilePopen)
    /\ WF_vars(QueryStage)
    /\ WF_vars(Terminate)
    /\ WF_vars(WaitProfiler)
    /\ WF_vars(PerfRunProfile)
    /\ WF_vars(StopContainers)
    /\ WF_vars(FinallyStop)

SpecSweepFair == SweepInit /\ [][SweepNext]_vars /\ SweepFairness

\* neither the runner nor the sweep driver is started
Quiet ==
    /\ RunnerIdle
    /\ searchers = 0
    /\ DETAILED_RESULTS = FALSE
    /\ drop_caches = FALSE
    /\ has_ensure_loaded = FALSE
    /\ upload_stats = {"latencies", "count"}
    /\ search_stats = {"latencies", "precisions", "rps"}
    /\ runsLeft = 0
    /\ SweepIdle
    /\ driver = "probe"
    /\ spc = "off"
    /\ volumes = {}

\* one trace file: either tracer writes any events, parse_log_file reads them
InitParse ==
    /\ Quiet
    /\ apc = "write"
    /\ variant \in {"bpf", "perf"}
    /\ events \in UNION {[1..n -> EventLines] : n \in 0..MaxEvents}
    /\ trace_file = <<>>
    /\ event_counter = EmptyDict
    /\ file_counts = EmptyDict
    /\ aggregated_data = EmptyDict
    /\ csv = EmptyDict
    /\ perf_data = "absent"
    /\ plog = <<>>
    /\ out_buffer = <<>>
    /\ signal = "none"

ParseNext ==
    \/ WriteTrace
    \/ ParseLog

SpecParse == InitParse /\ [][ParseNext]_vars

\* the summary of any parsed files, one per run
InitSummary ==
    /\ Quiet
    /\ apc = "aggregate"
    /\ variant = "bpf"
    /\ events = <<>>
    /\ trace_file = <<>>
    /\ event_counter = EmptyDict
    /\ file_counts \in UNION {[1..n -> Counters] : n \in 1..MaxFiles}
    /\ aggregated_data = EmptyDict
    /\ csv = EmptyDict
    /\ perf_data = "absent"
    /\ plog = <<>>
    /\ out_buffer = <<>>
    /\ signal = "none"

SummaryNext ==
    \/ Aggregate
    \/ WriteCsv

SpecSummary == InitSummary /\ [][SummaryNext]_vars

\* run_profile of the perf driver, entered with or without a raw trace file of
\* an earlier run, for any events perf script reports
InitPerf ==
    /\ Quiet
    /\ apc = "perf_begin"
    /\ variant = "perf"
    /\ events \in UNION {[1..n -> EventLines] : n \in 0..MaxEvents}
    /\ trace_file = <<>>
    /\ event_counter = EmptyDict
    /\ file_counts = EmptyDict
    /\ aggregated_data = EmptyDict
    /\ csv = EmptyDict
    /\ perf_data \in {"absent", "stale"}
    /\ plog = <<>>
    /\ out_buffer = <<>>
    /\ signal = "none"

PerfNext ==
    \/ PerfRemoveStale
    \/ PerfFlush
    \/ PerfRecord
    \/ PerfConvert

SpecPerf == InitPerf /\ [][PerfNext]_vars

\* the size estimation driver
InitEstimate ==
    /\ RunnerIdle
    /\ searchers = 0
    /\ DETAILED_RESULTS = FALSE
    /\ drop_caches = FALSE
    /\ has_ensure_loaded = FALSE
    /\ upload_stats = {"latencies", "count"}
    /\ search_stats = {"latencies", "precisions", "rps"}
    /\ runsLeft = 0
    /\ SweepIdle
    /\ AnalysisIdle
    /\ driver = "estimate"
    /\ spc = "est_start"
    /\ volumes \in {{}, {1}}

EstimateNext ==
    \/ EstStart
    \/ EstUpload
    \/ EstWait
    \/ EstMeasureAndSave
    \/ EstFinallyStop

SpecEstimate == InitEstimate /\ [][EstimateNext]_vars

\* the tracer process, for any events, until a signal ends it
InitTracer ==
    /\ Quiet
    /\ apc = "tr_start"
    /\ variant = "bpf"
    /\ events \in UNION {[1..n -> EventLines] : n \in 0..MaxEvents}
    /\ trace_file = <<>>
    /\ event_counter = EmptyDict
    /\ file_counts = EmptyDict
    /\ aggregated_data = EmptyDict
    /\ csv = EmptyDict
    /\ perf_data = "absent"
    /\ plog = <<>>
    /\ out_buffer = <<>>
    /\ signal = "none"

TracerNext ==
    \/ TracerStart
    \/ TracerPrint
    \/ TracerBufferFull
    \/ TracerSignalled

SpecTracer == InitTracer /\ [][TracerNext]_vars

\* ------------------------------------------------------------------ claims
SearchIds == 0..(searchers - 1)

AtMostOnePerId(s) == \A id \in SearchIds : Cardinality(GlobSearchId(s, id)) <= 1

\* the Search artifacts the current invocation has added
NewSearchFiles == GlobSearchAll(store) \ GlobSearchAll(pre)

SensitiveKeys == {"latencies", "precisions"}

\* C1 as stated: after any sequence of invocations, whatever the flags, the
\* store holds at most one Search artifact per search_id and no more Search
\* artifacts than there are search configurations.
C1_OnePerSearchIdAlways ==
    /\ AtMostOnePerId(store)
    /\ Cardinality(GlobSearchAll(store)) <= searchers

\* C1 amended: one invocation adds at most one Search artifact per search_id;
\* an invocation with skip_if_exists=true that is entered with at most one
\* Search artifact per search_id keeps it so, and the number of Search
\* artifacts stays within the number of search configurations.
C1_OnePerSearchIdPerRun ==
    /\ \A id \in SearchIds :
          Cardinality({f \in NewSearchFiles : f.search_id = id}) <= 1
    /\ (flags.skip_if_exists /\ AtMostOnePerId(pre))
          => /\ AtMostOnePerId(store)
             /\ Cardinality(GlobSearchAll(store)) <= searchers

C1_Witness ==
    /\ pc = "done"
    /\ flags.skip_if_exists
    /\ searchers = 2
    /\ Cardinality(GlobSearchAll(pre)) = 1
    /\ Cardinality(GlobSearchAll(store)) = 2
    /\ \E f \in NewSearchFiles : \E g \in GlobSearchAll(pre) : f.ts # g.ts

\* C2: an invocation with skip_if_exists=true that is entered when every
\* search configuration already has its Search artifact adds no Search
\* artifact and leaves the existing ones as they are.
C2_SecondRunAddsNoSearch ==
    (/\ pc # "idle"
     /\ flags.skip_if_exists
     /\ \A id \in SearchIds : Cardinality(GlobSearchId(pre, id)) >= 1)
        => GlobSearchAll(store) = GlobSearchAll(pre)

\* the second of two runs with the same flags, the first of which went from an
\* empty store to the full set
C2_Witness ==
    /\ prev.ran
    /\ prev.flags = flags
    /\ flags.skip_if_exists
    /\ ~flags.skip_search
    /\ searchers = 2
    /\ pc \in Ended
    /\ AtMostOnePerId(pre)
    /\ Cardinality(GlobSearchAll(pre)) = 2
    /\ now > 0

\* C3: with skip_if_exists=true and the search stage not skipped, an
\* invocation entered with exactly one Search artifact never calls search_all
\* and never writes an artifact for that artifact's search_id, and when it has
\* run to its end it has created exactly one artifact for each of the other
\* N-1 search configurations.
C3_ResumesTheMissing ==
    \A old \in GlobSearchAll(pre) :
        (/\ pc # "idle"
         /\ flags.skip_if_exists
         /\ ~flags.skip_search
         /\ GlobSearchAll(pre) = {old})
        => /\ \A k \in 1..Len(log) :
                log[k].op \in {"search_all", "search_all_raised", "save_search"}
                    => log[k].id # old.search_id
           /\ GlobSearchId(store, old.search_id) = {old}
           /\ pc \in {"done", "skipped"} =>
                /\ Cardinality(NewSearchFiles) = searchers - 1
                /\ \A id \in SearchIds \ {old.search_id} :
                      Cardinality(GlobSearchId(store, id)) = 1
                /\ Count(log, "search_all") = searchers - 1

C3_Witness ==
    /\ pc = "done"
    /\ flags.skip_if_exists
    /\ ~flags.skip_search
    /\ searchers = 2
    /\ Cardinality(GlobSearchAll(pre)) = 1
    /\ Cardinality(NewSearchFiles) = 1
    /\ \E k \in 1..Len(log) : log[k].op = "skip_search"

\* C8: when skip_if_exists is true and the store holds as many Search
\* artifacts as there are search configurations, run_experiment returns at
\* the whole-run check: no configure, upload, ensure_loaded or search_all is
\* called and nothing is written, whatever skip_upload and skip_search are.
C8_WholeRunSkipIsNoOp ==
    (/\ pc # "idle"
     /\ flags.skip_if_exists
     /\ Cardinality(GlobSearchAll(pre)) = searchers)
        => /\ pc = "skipped"
           /\ log = <<>>
           /\ store = pre

C8_Witness ==
    /\ pc = "skipped"
    /\ searchers = 2
    /\ ~flags.skip_upload
    /\ ~flags.skip_search
    /\ Cardinality(GlobSearchAll(pre)) = 2

\* C9: with two search configurations, a run with skip_upload=false and
\* skip_search=false (skip_if_exists at its default, true) that starts from
\* an empty store and runs to its end leaves exactly 1 Upload artifact and
\* 2 Search artifacts; a second run with the same flags adds nothing.
C9_EndToEnd ==
    /\ (/\ pc = "done" /\ pre = {} /\ searchers = 2
        /\ ~flags.skip_upload /\ ~flags.skip_search)
          => /\ Cardinality(UploadFiles(store)) = 1
             /\ Cardinality(GlobSearchAll(store)) = 2
             /\ Cardinality(store) = 3
    /\ (/\ pc # "idle" /\ prev.ran /\ prev.flags = flags /\ searchers = 2
        /\ ~flags.skip_upload /\ ~flags.skip_search /\ flags.skip_if_exists)
          => /\ store = pre
             /\ Cardinality(UploadFiles(pre)) = 1
             /\ Cardinality(GlobSearchAll(pre)) = 2

C9_Witness ==
    /\ pc = "skipped" /\ prev.ran /\ prev.flags = flags /\ searchers = 2
    /\ ~flags.skip_upload /\ ~flags.skip_search /\ flags.skip_if_exists
    /\ Cardinality(store) = 3
    /\ now > 0

\* the call of the backend whose result the save at log[k] persists
SavedCall(k) == IF log[k].op = "save_upload" THEN "upload" ELSE "search_all"

\* C10: with the detailed-results toggle off no persisted artifact has a
\* latencies or a precisions key; with the toggle on every save persists the
\* keys the backend call before it returned, latencies and precisions among them.
C10_DetailedToggle ==
    /\ ~DETAILED_RESULTS => \A f \in store : f.results \cap SensitiveKeys = {}
    /\ \A k \in 1..Len(log) :
          log[k].op \in {"save_upload", "save_search"}
            => /\ k > 1
               /\ log[k - 1].op = SavedCall(k)
               /\ log[k - 1].id = log[k].id
               /\ log[k].keys \subseteq log[k - 1].keys
               /\ DETAILED_RESULTS => log[k].keys = log[k - 1].keys
               /\ \E f \in store : /\ f.search_id = log[k].id
                                   /\ f.kind = (IF log[k].op = "save_upload"
                                                  THEN "upload" ELSE "search")
                                   /\ f.results = log[k].keys

C10_Witness ==
    /\ ~DETAILED_RESULTS
    /\ pc = "done"
    /\ "latencies" \in upload_stats
    /\ SensitiveKeys \subseteq search_stats
    /\ UploadFiles(store) # {}
    /\ Cardinality(GlobSearchAll(store)) = searchers

\* ---------------------------------------------------------- sweep claims
\* test() is between cells, or has left the loop
BetweenCells == spc \in {"start", "clear", "finished", "aborted"}

\* the first position of op in l (0 when absent)
First(l, op) == IF op \in Ops(l) THEN CHOOSE k \in 1..Len(l) :
                                        /\ l[k].op = op
                                        /\ \A j \in 1..(k - 1) : l[j].op # op
                ELSE 0

ProfileLeft == {"run_profile_returned", "run_profile_raised"} \cap Ops(slog) # {}

\* C4: once the tracer has been launched, terminate() is called on it exactly
\* once by the time run_profile is left, however the query stage ended, and
\* never more than once; it is not called when no tracer was launched.
C4_TerminateExactlyOnce ==
    /\ Count(slog, "terminate") <= 1
    /\ "popen" \notin Ops(slog) => Count(slog, "terminate") = 0
    /\ ("popen" \in Ops(slog) /\ ProfileLeft) => Count(slog, "terminate") = 1

C4_Witness ==
    /\ "popen" \in Ops(slog)
    /\ "query_exception" \in Ops(slog)
    /\ "run_profile_raised" \in Ops(slog)
    /\ Count(slog, "terminate") = 1

QueryFailed == {"query_failed", "query_exception"} \cap Ops(slog) # {}

\* C5: when the query stage fails with the tracer launched, run_profile is
\* left by an exception, and by then the tracer has been sent the graceful
\* signal and has either exited within the wait or been killed.
C5_TeardownBeforePropagation ==
    (/\ "popen" \in Ops(slog)
     /\ QueryFailed
     /\ spc \notin {"rp_terminate", "rp_wait"})
        => /\ "run_profile_raised" \in Ops(slog)
           /\ "run_profile_returned" \notin Ops(slog)
           /\ exc
           /\ 0 < First(slog, "terminate")
           /\ First(slog, "terminate") < First(slog, "run_profile_raised")
           /\ \E k \in 1..Len(slog) :
                 /\ slog[k].op \in {"wait_exited", "kill"}
                 /\ First(slog, "terminate") < k
                 /\ k < First(slog, "run_profile_raised")
           /\ profiler \in {"exited", "killed"}

C5_Witness ==
    /\ "popen" \in Ops(slog)
    /\ "query_failed" \in Ops(slog)
    /\ "kill" \in Ops(slog)
    /\ "run_profile_raised" \in Ops(slog)
    /\ spc = "finally_stop"

StopOutcomes == {"stop", "stop_warning", "stop_raised", "down_raised", "rm_raised",
                 "stopped"}

\* C6: when test() is between cells or has left the loop, the log of the cell
\* it ran last begins with that cell's start and ends with a call of
\* stop_docker_containers that follows every other step of the cell, and the
\* log holds no call of any other cell: the stop precedes the next start.
C6_StopBeforeNextStart ==
    (BetweenCells /\ slog # <<>>)
        => /\ slog[1].op = "start"
           /\ \A k \in 1..Len(slog) : slog[k].cell = slog[1].cell
           /\ \E k \in 2..Len(slog) :
                 /\ slog[k].op = "stop"
                 /\ \A j \in (k + 1)..Len(slog) : slog[j].op \in StopOutcomes
           /\ spc \in {"start", "clear"} => slog[1].cell # cell

C6_Witness ==
    /\ spc = "start"
    /\ slog # <<>>
    /\ slog[1].cell # cell
    /\ Count(slog, "stop") = 2

\* the steps of a cell whose exception leaves the try body
StepFailures == {"start_raised", "flush_raised", "upload_raised", "connect_raised",
                 "has_collection_raised", "confirm_loaded_raised", "run_profile_raised"}

C11_KillOnlyAfterTimeout ==
    /\ Count(slog, "kill") <= 1
    /\ "kill" \in Ops(slog)
          => /\ 0 < First(slog, "terminate")
             /\ First(slog, "terminate") < First(slog, "wait_timeout")
             /\ First(slog, "kill") = First(slog, "wait_timeout") + 1
             /\ profiler = "killed"
    /\ "wait_exited" \in Ops(slog)
          => /\ "kill" \notin Ops(slog)
             /\ "wait_timeout" \notin Ops(slog)
             /\ profiler = "exited"
    /\ spc = "rp_wait" => ("terminate" \in Ops(slog) /\ "kill" \notin Ops(slog))

C11_Witness ==
    /\ "kill" \in Ops(slog)
    /\ "wait_timeout" \in Ops(slog)
    /\ profiler = "killed"

InTeardown == spc \in {"rp_terminate", "rp_wait"}

\* C12: the tracer teardown entered when the query stage has ended always comes
\* to an end, also when the tracer never exits: it waits at most once, the kill
\* follows the timeout without another wait, and run_profile moves on.
C12_TeardownTerminates ==
    /\ [](Count(slog, "wait_timeout") + Count(slog, "wait_exited") <= 1)
    /\ []("kill" \in Ops(slog) => ~InTeardown)
    /\ (InTeardown ~> ~InTeardown)

C12_Witness ==
    /\ "wait_timeout" \in Ops(slog)
    /\ "kill" \in Ops(slog)
    /\ ProfileLeft
    /\ ~InTeardown
\* the step is a call of save_upload_results or save_search_results
SaveCall ==
    /\ Len(log') > Len(log)
    /\ log'[Len(log')].op \in {"save_upload", "save_search"}

\* C13 as stated: no save overwrites or modifies an existing artifact: every call
\* of save_search_results or save_upload_results leaves every file of the store
\* as it was and adds one new file, also when the same search_id is saved twice.
C13_SavesNeverOverwrite ==
    [][SaveCall => /\ store \subseteq store'
                   /\ Cardinality(store') = Cardinality(store) + 1]_vars
WaitErrors == {"connect_raised", "has_collection_raised", "flush_collection_raised",
               "index_progress_raised", "compaction_state_raised"}

\* C14 as stated: whichever call of wait_for_indexing_completion raises (the
\* connect, the collection lookup, the flush or a poll), the error is caught and
\* printed, no exception leaves the function, and the cell goes on to its next
\* step.
C14_WaitErrorsNeverPropagate ==
    (Ops(slog) \cap WaitErrors # {})
        => /\ "wait_error_printed" \in Ops(slog)
           /\ Ops(slog) \cap {"upload_raised", "run_profile_raised", "flush_raised"} = {}
                 => (~exc /\ spc # "aborted")
\* the compaction state has been polled, or is about to be
CompactionPolled ==
    \/ spc = "wait_compact"
    \/ Ops(slog) \cap {"compaction_complete", "compaction_pending",
                       "compaction_state_raised"} # {}

\* wait_for_indexing_completion found the collection and returned with no error caught
WaitReturnedClean ==
    /\ "has_collection" \in Ops(slog)
    /\ "disconnect" \in Ops(slog)
    /\ "wait_error_printed" \notin Ops(slog)

\* C15: the collection is flushed before the first poll; the compaction state
\* is polled only after a poll of the index progress that showed indexed rows
\* equal to total rows, never after one that showed rows pending; a clean return
\* means that this poll was made after the flush and that the state Completed
\* was observed after it.
C15_CompactionAfterIndexPoll ==
    /\ (spc = "wait_index" \/ CompactionPolled) => "flush_collection" \in Ops(slog)
    /\ "index_pending" \notin Ops(slog)
    /\ "compaction_pending" \notin Ops(slog)
    /\ CompactionPolled
          => First(slog, "flush_collection") < First(slog, "index_complete")
    /\ WaitReturnedClean
          => /\ 0 < First(slog, "flush_collection")
             /\ First(slog, "flush_collection") < First(slog, "index_complete")
             /\ First(slog, "index_complete") < First(slog, "compaction_complete")

C15_Witness ==
    /\ WaitReturnedClean
    /\ "index_complete" \in Ops(slog)
    /\ "compaction_complete" \in Ops(slog)
    /\ DOMAIN index_progress # {}
    /\ index_progress.total_rows > 0

InPollLoop == spc \in {"wait_index", "wait_compact"}

\* what the poll the loop is at would see ends the loop
PollEndsLoop ==
    \/ spc = "wait_index"
        /\ Get(index_progress, "total_rows") = Get(index_progress, "indexed_rows")
    \/ spc = "wait_compact" /\ compaction = "Completed"

\* C16: the polling loops have no bound. A loop is left only by a poll that
\* shows the index complete (the compaction Completed) or by an error, however
\* many polls have been made; once the server is at that point the loop does
\* end; as long as it is not and nothing raises, the sweep stays in the loop.
C16_PollsUntilComplete ==
    /\ [][(InPollLoop /\ spc' # spc)
             => \/ PollEndsLoop
                \/ "wait_error_printed" \in Ops(slog')]_vars
    /\ \A at \in {"wait_index", "wait_compact"} :
          (spc = at /\ PollEndsLoop) ~> (spc # at)

C16_Witness ==
    /\ spc = "wait_index"
    /\ polls = MaxPolls
    /\ ~PollEndsLoop
\* the steps of a cell that follow its start
CellSteps == {"upload_dataset", "upload", "wait", "connect", "confirm_loaded",
              "run_profile", "popen", "query_ok", "query_failed"}

\* C17: start_docker_containers raises when the launch command fails and when
\* the container is not running at the check after the launch; the launch is
\* issued at most once, and no upload, wait or query step of the cell follows a
\* start that raised: the cell's steps follow only a start that returned.
C17_StartFailureIsFatal ==
    /\ Count(slog, "start") <= 1
    /\ Count(slog, "launch") + Count(slog, "launch_raised") <= 1
    /\ "launch_raised" \in Ops(slog) => "start_raised" \in Ops(slog)
    /\ container = "not_running" => "start_raised" \in Ops(slog)
    /\ "start_raised" \in Ops(slog)
          => /\ Ops(slog) \cap CellSteps = {}
             /\ "started" \notin Ops(slog)
             /\ spc \in {"finally_stop", "aborted"}
    /\ Ops(slog) \cap CellSteps # {} => "started" \in Ops(slog)

C17_Witness ==
    /\ container = "not_running"
    /\ "launch" \in Ops(slog)
    /\ "start_raised" \in Ops(slog)
    /\ spc = "finally_stop"

\* C18: in the perf sweep, start_docker_containers returns true exactly when
\* the volumes directory of the size existed before the launch, and the
\* driver calls upload_dataset in a cell if and only if it returned false.
C18_UploadIffVolumesAbsent ==
    (driver = "perf" /\ "started" \in Ops(slog))
        => /\ is_exist <=> "volumes_exist" \in Ops(slog)
           /\ "upload_dataset" \in Ops(slog) => ~is_exist
           /\ (~is_exist /\ spc # "upload") => "upload_dataset" \in Ops(slog)
           /\ spc = "upload" => ~is_exist

C18_Witness ==
    /\ driver = "perf"
    /\ "started" \in Ops(slog)
    /\ is_exist
    /\ "volumes_exist" \in Ops(slog)
    /\ "confirm_loaded" \in Ops(slog)
    /\ "upload_dataset" \notin Ops(slog)
\* C19 as stated: stop_docker_containers does not raise for a container that
\* is still listed after the teardown, and raises only when the teardown command
\* (docker compose down) itself fails.
C19_StopRaisesOnlyOnDown ==
    \A k \in 1..Len(slog) :
        /\ slog[k].op = "stop_raised" => (k > 1 /\ slog[k - 1].op = "down_raised")
        /\ slog[k].op = "stop_warning" => (k < Len(slog) /\ slog[k + 1].op = "stopped")

\* C19 amended: a container that is still listed after the teardown is only
\* warned about, and the call goes on; stop_docker_containers raises when the
\* teardown command fails and, in run_profile.py alone, when the removal of the
\* volumes directory that follows the check fails.
C19_StopRaisesOnDownOrRemoval ==
    \A k \in 1..Len(slog) :
        /\ slog[k].op = "stop_raised"
              => /\ k > 1
                 /\ slog[k - 1].op \in {"down_raised", "rm_raised"}
                 /\ slog[k - 1].op = "rm_raised" => driver = "probe"
        /\ slog[k].op = "stop_warning"
              => /\ k < Len(slog)
                 /\ slog[k + 1].op \in {"stopped", "rm_raised"}
                 /\ slog[k + 1].op = "rm_raised" => driver = "probe"

C19_Witness ==
    /\ container = "lingering"
    /\ \E k \in 1..(Len(slog) - 1) :
          /\ slog[k].op = "stop_warning"
          /\ slog[k + 1].op = "stopped"
    /\ ~exc
    /\ spc = "finally_stop"

\* an instance that has been launched and not torn down
Up == {"running", "not_running"}

\* C20: at most one instance is started and not yet stopped. A cell launches at
\* most once; whenever a start can be issued, and when the sweep has run to its
\* end, no instance is up and the stop of the cell before has returned; and an
\* instance that is up ceases to be so only in a call of stop_docker_containers.
C20_OneInstanceAtATime ==
    /\ [](Count(slog, "launch") <= 1)
    /\ [](spc \in {"start", "clear", "finished"} => container \notin Up)
    /\ []((spc \in {"start", "clear", "finished"} /\ slog # <<>>)
            => "stopped" \in Ops(slog))
    /\ [][(container \in Up /\ container' \notin Up)
             => /\ spc \in {"stop", "finally_stop"}
                /\ Count(slog', "stop") = Count(slog, "stop") + 1]_vars

C20_Witness ==
    /\ spc = "start"
    /\ slog # <<>>
    /\ "launch" \in Ops(slog)
    /\ "stopped" \in Ops(slog)
    /\ container = "absent"
    /\ cell # FirstCell
\* a before b, when both are in the log of the cell
Before(a, b) == (a \in Ops(slog) /\ b \in Ops(slog)) => First(slog, a) < First(slog, b)

UploadReturned == "upload" \in Ops(slog) /\ "upload_raised" \notin Ops(slog)

\* the wait of the cell has returned: wait_for_indexing_completion (which
\* disconnects on every return) or confirm_loaded (perf)
RecoveryReturned ==
    IF driver = "perf" THEN "confirm_loaded" \in Ops(slog) ELSE "disconnect" \in Ops(slog)

InWait == spc \in {"wait_connect", "wait_has", "wait_flush", "wait_index", "wait_compact"}

InRunProfile ==
    \/ spc \in {"rp_flush", "rp_popen", "rp_run", "rp_terminate", "rp_wait", "perf_run"}
    \/ "run_profile" \in Ops(slog)

\* Start, Upload, the wait and run_profile, each begun only after the step
\* before it has returned without raising, in this order
StepsInOrder ==
    /\ slog # <<>> => slog[1].op = "start"
    /\ Before("started", "upload_dataset")
    /\ Before("upload", "wait") /\ Before("upload", "confirm_loaded")
    /\ Before("disconnect", "run_profile") /\ Before("confirm_loaded", "run_profile")
    /\ Before("run_profile_returned", "stop")
    /\ (spc = "upload" \/ "upload_dataset" \in Ops(slog)) => "started" \in Ops(slog)
    /\ (InWait \/ "wait" \in Ops(slog)) => UploadReturned
    /\ (spc = "confirm_loaded" \/ "confirm_loaded" \in Ops(slog))
          => /\ "started" \in Ops(slog)
             /\ "upload_dataset" \in Ops(slog) => UploadReturned
    /\ InRunProfile => RecoveryReturned

\* C21 as stated: the steps of a cell come in the order Start, Upload (if
\* needed), wait, run_profile, Stop, and none of them, Stop included, begins
\* before the step before it has returned without raising.
C21_EveryStepAfterSuccess ==
    /\ StepsInOrder
    /\ (spc \in {"stop", "finally_stop"} \/ "stop" \in Ops(slog))
          => "run_profile_returned" \in Ops(slog)

\* C21 amended: Start, Upload (if needed), the wait and run_profile come in
\* this order, each begun only after the step before it has returned without
\* raising; the Stop of the try body begins only after run_profile has
\* returned, while the Stop of the finally block also begins right after a step
\* that raised.
C21_StepsInOrderStopAlways ==
    /\ StepsInOrder
    /\ spc = "stop" => "run_profile_returned" \in Ops(slog)
    /\ (spc = "finally_stop" \/ "stop" \in Ops(slog))
          => \/ "run_profile_returned" \in Ops(slog)
             \/ Ops(slog) \cap StepFailures # {}
    /\ (spc = "finally_stop" /\ exc /\ "stop" \notin Ops(slog))
          => slog[Len(slog)].op \in StepFailures

C21_Witness ==
    /\ driver = "probe"
    /\ spc = "finally_stop"
    /\ UploadReturned
    /\ "compaction_complete" \in Ops(slog)
    /\ "run_profile_returned" \in Ops(slog)
    /\ "stopped" \in Ops(slog)
\* the invocation was not skipped as a whole and is past its Configure stage
PastConfigure == pc \in {"upload", "init_client", "search", "done", "raised"}

ConfigureCalls == Count(log, "configure") + Count(log, "configure_raised")

\* C22 as stated: in an invocation that is not skipped as a whole, configure
\* is called whenever skip_configure is false, also when skip_upload is true,
\* and before any upload.
C22_ConfigureUnlessSkipped ==
    /\ PastConfigure => (~flags.skip_configure => ConfigureCalls = 1)
    /\ Ops(log) \cap {"upload", "upload_raised"} # {}
          => (~flags.skip_configure => First(log, "configure") = 1)

\* C22 amended: in an invocation that is not skipped as a whole, configure is
\* called, once, exactly when skip_upload and skip_configure are both false,
\* and then it is the first call, before the upload; when skip_upload is true
\* configure is not called, whatever skip_configure says.
C22_ConfigureOnlyWithUpload ==
    /\ PastConfigure
          => (ConfigureCalls = IF ~flags.skip_upload /\ ~flags.skip_configure THEN 1 ELSE 0)
    /\ ConfigureCalls > 0 => log[1].op \in {"configure", "configure_raised"}
    /\ Ops(log) \cap {"upload", "upload_raised"} # {}
          => /\ ~flags.skip_upload
             /\ ~flags.skip_configure => First(log, "configure") = 1

C22_Witness ==
    /\ pc = "done"
    /\ ~flags.skip_configure
    /\ First(log, "configure") = 1
    /\ First(log, "upload") = 2

EnsureLoadedNeeded == flags.skip_upload /\ ~flags.skip_search /\ has_ensure_loaded

\* C23: when upload is skipped, search is not and the uploader has
\* ensure_loaded, the first two calls of the invocation are init_client and
\* then ensure_loaded, each made once, whether or not init_client raised, and
\* the search loop follows; in every other case neither call is made.
C23_EnsureLoadedOnceBeforeSearch ==
    LET inits == Count(log, "init_client") + Count(log, "init_client_raised")
        loads == Count(log, "ensure_loaded") + Count(log, "ensure_loaded_raised")
    IN /\ (pc \in {"search", "done", "raised"} /\ EnsureLoadedNeeded)
             => /\ inits = 1 /\ loads = 1
                /\ log[1].op \in {"init_client", "init_client_raised"}
                /\ log[2].op \in {"ensure_loaded", "ensure_loaded_raised"}
       /\ (pc # "idle" /\ ~EnsureLoadedNeeded) => (inits = 0 /\ loads = 0)
       /\ pc = "idle" => (inits = 0 /\ loads = 0)
       /\ "upload" \in Ops(log) => loads = 0

C23_Witness ==
    /\ pc = "done"
    /\ "init_client_raised" \in Ops(log)
    /\ First(log, "ensure_loaded") = 2
    /\ First(log, "search_all") = 3
\* C24 as stated: delete_client does not raise, and by its end the Uploader,
\* the Configurator and every Searcher have been asked to release their
\* client, also when the release of one of them fails.
C24_DeleteReleasesAll ==
    /\ pc # "delete_raised"
    /\ pc \in {"deleted", "delete_raised"}
          => /\ Count(log, "delete_uploader") + Count(log, "delete_uploader_raised") = 1
             /\ Count(log, "delete_configurator")
                  + Count(log, "delete_configurator_raised") = 1
             /\ Count(log, "delete_searcher") + Count(log, "delete_searcher_raised")
                  = searchers
\* the positions of the log at which op is called for search_id id
At(op, id) == {k \in 1..Len(log) : log[k].op = op /\ log[k].id = id}

\* C25: with drop_caches set, every call of search_all is immediately preceded
\* by sync and then the write to drop_caches, made for that configuration; a
\* configuration is flushed once when it is executed and not at all when it is
\* skipped because its artifact exists; without drop_caches nothing is flushed.
C25_FlushBeforeEverySearch ==
    /\ ~drop_caches => Ops(log) \cap {"sync", "drop_caches", "drop_caches_failed"} = {}
    /\ drop_caches
          => \A id \in SearchIds :
               LET calls == At("search_all", id) \cup At("search_all_raised", id)
                   drops == At("drop_caches", id) \cup At("drop_caches_failed", id)
               IN /\ Cardinality(At("sync", id)) = Cardinality(calls)
                  /\ Cardinality(drops) = Cardinality(calls)
                  /\ Cardinality(calls) <= 1
                  /\ \A k \in calls : /\ k > 2
                                       /\ (k - 1) \in drops
                                       /\ (k - 2) \in At("sync", id)
                  /\ At("skip_search", id) # {} => (At("sync", id) = {} /\ drops = {})

C25_Witness ==
    /\ drop_caches
    /\ At("skip_search", 0) # {}
    /\ At("sync", 0) = {}
    /\ At("sync", 1) # {}
    /\ At("search_all", 1) # {}
\* C26 as stated: a cache flush that fails raises nothing, and the operation it
\* precedes (the upload, the launch of the tracer and the profiled run) still
\* runs.
C26_FlushFailureNotFatal ==
    \A k \in 1..Len(slog) :
        slog[k].op = "flush_raised"
            => /\ k < Len(slog)
               /\ slog[k + 1].op \in {"upload", "popen", "popen_raised", "query_ok",
                                       "query_failed"}

QueryEnded == {"query_ok", "query_failed", "query_exception"}

\* C27: in run_profile.py the tracer is launched before the query stage, and
\* terminate() is not called before the query stage has ended; when the launch
\* of the tracer raises, the query stage is not run, no signal is sent, and the
\* exception leaves test() only after the cell's stop_docker_containers.
C27_TracerBracketsQueryStage ==
    driver = "probe"
        => /\ \A q \in QueryEnded : q \in Ops(slog)
                 => (0 < First(slog, "popen") /\ First(slog, "popen") < First(slog, q))
           /\ spc = "rp_run" => ("popen" \in Ops(slog) /\ "terminate" \notin Ops(slog))
           /\ "terminate" \in Ops(slog)
                 => \E q \in QueryEnded :
                       /\ q \in Ops(slog)
                       /\ First(slog, q) < First(slog, "terminate")
           /\ "popen_raised" \in Ops(slog)
                 => /\ Ops(slog) \cap (QueryEnded \cup {"popen", "terminate", "kill"}) = {}
                    /\ spc \in {"finally_stop", "aborted"}
                    /\ spc = "aborted"
                          => First(slog, "popen_raised") < First(slog, "stop")

C27_Witness ==
    /\ driver = "probe"
    /\ "popen_raised" \in Ops(slog)
    /\ "stop" \in Ops(slog)
    /\ spc = "aborted"

\* --------------------------------------------------------- analysis claims
\* event lines of the trace file for one (process, event kind)
EventLinesOf(comm, kind) ==
    {k \in 1..Len(trace_file) :
        /\ trace_file[k] \notin {Header, Banner}
        /\ trace_file[k].comm = comm
        /\ trace_file[k].event = kind}

\* runs of the summary in which a key was counted
RunsCounting(key) == {r \in DOMAIN file_counts : Get(file_counts[r], key) # 0}

\* C28: in the written summary a (process, event) column whose count is zero
\* or missing in some run is absent from every row, and a column that is
\* non-zero in every run is present in every row with the count parsed for
\* that run.
C28_SummaryKeepsCommonColumns ==
    apc = "written" =>
        \A key \in SummaryKeys : \A r \in DOMAIN file_counts :
            IF RunsCounting(key) = DOMAIN file_counts
              THEN key \in DOMAIN csv[r] /\ csv[r][key] = file_counts[r][key]
              ELSE key \notin DOMAIN csv[r]

\* a summary of several runs that keeps one column and drops one that only
\* some of the runs counted
C28_Witness ==
    /\ apc = "written"
    /\ Cardinality(DOMAIN file_counts) > 1
    /\ \E kept, dropped \in SummaryKeys :
        /\ RunsCounting(kept) = DOMAIN file_counts
        /\ RunsCounting(dropped) # {}
        /\ RunsCounting(dropped) # DOMAIN file_counts
        /\ \A r \in DOMAIN file_counts : DOMAIN csv[r] = {kept}

\* C29: for a trace file of either tracer, parse_log_file counts for each
\* (process, event kind) exactly the event lines the tracer wrote: no event
\* line is discarded and no header line is counted.
C29_ParseCountsEveryEventLine ==
    apc = "parsed" =>
        \A comm \in Comms : \A kind \in EventKinds :
            Get(event_counter, <<comm, kind>>) = Cardinality(EventLinesOf(comm, kind))

\* -------------------------------------------------- upload is not resumable
\* the Upload stage of the current invocation returns: upload and the save
UploadReturns_Step == pc = "upload" /\ pc' \notin {"upload", "raised"}

SearchOps == {"search_all", "search_all_raised", "skip_search"}

\* positions of the log at which the loop handled a configuration
SearchSteps == {k \in 1..Len(log) : log[k].op \in SearchOps}

\* C31: the configurations are handled in increasing search_id order; the
\* artifact of a search is saved right after its search_all, before the next
\* configuration begins; when search_all raises for search_id k nothing more is
\* done in the invocation, the error leaves run_experiment, the artifacts saved
\* before it are in the store and none is written for k or a later search_id.
C31_SearchInOrderFailureStops ==
    /\ \A j, k \in SearchSteps : j < k => log[j].id < log[k].id
    /\ \A k \in 1..Len(log) :
        /\ log[k].op = "search_all" =>
              /\ k < Len(log)
              /\ log[k + 1].op = "save_search"
              /\ log[k + 1].id = log[k].id
        /\ log[k].op = "save_search" =>
              /\ k > 1
              /\ log[k - 1].op = "search_all"
              /\ log[k - 1].id = log[k].id
              /\ GlobSearchId(store, log[k].id) # {}
        /\ log[k].op = "search_all_raised" =>
              /\ k = Len(log)
              /\ pc = "raised"
              /\ \A j \in 1..Len(log) :
                    log[j].op = "save_search" => log[j].id < log[k].id
              /\ \A f \in store \ pre :
                    f.kind = "search" => f.search_id < log[k].id

\* the second of two searches raised after the first one's artifact was saved
C31_Witness ==
    /\ pc = "raised"
    /\ At("save_search", 0) # {}
    /\ At("search_all_raised", 1) # {}
    /\ GlobSearchId(store, 0) # {}
    /\ GlobSearchId(store, 1) = {}

\* ------------------------------------------------- one upload per volume
\* slog holds the calls of the cell test() is in
InCell == Len(slog) > 0 /\ slog[1].cell = cell

\* C32: in the perf sweep every cell that is reached (no step before it
\* failed) and whose start returned uploads the dataset once when it is the
\* first iteration of its (dataset, size) combination, where the volumes
\* directory is absent, and does not upload in a later iteration, where the
\* directory of the first iteration is found.
C32_UploadOncePerCombination ==
    (driver = "perf" /\ InCell /\ "started" \in Ops(slog)) =>
        IF cell.i = 0
          THEN /\ "volumes_absent" \in Ops(slog)
               /\ \/ spc = "upload" /\ "upload_dataset" \notin Ops(slog)
                  \/ spc # "upload" /\ Count(slog, "upload_dataset") = 1
          ELSE /\ "volumes_exist" \in Ops(slog)
               /\ spc # "upload"
               /\ "upload_dataset" \notin Ops(slog)

\* a later iteration of the second dataset runs the profile without an upload
C32_Witness ==
    /\ driver = "perf"
    /\ cell.d = 2
    /\ cell.i = 1
    /\ spc = "perf_run"
    /\ "confirm_loaded" \in Ops(slog)
    /\ "upload_dataset" \notin Ops(slog)

\* ------------------------------------------------ record, then postprocess
\* C33: run_profile of the perf driver writes the trace text file only when
\* the profiled command succeeded and the raw trace file exists; when the
\* command fails, run_profile raises, nothing is converted, and a raw trace
\* perf left behind is not removed.
C33_TextOnlyAfterSuccess ==
    /\ trace_file # <<>> => (Done("cmd_ok") /\ Done("raw_found") /\ Done("text_written"))
    /\ Done("text_written") => (Done("cmd_ok") /\ Done("raw_found"))
    /\ Done("raw_found") => Done("raw_recorded")
    /\ Done("cmd_failed") =>
          /\ apc = "perf_raised"
          /\ trace_file = <<>>
          /\ ~Done("raw_found")
          /\ ~Done("raw_removed")
          /\ Done("raw_recorded") => perf_data = "recorded"

\* the command failed after perf had written a raw trace, which is left
C33_Witness ==
    /\ apc = "perf_raised"
    /\ Done("cmd_failed")
    /\ perf_data = "recorded"
    /\ Len(events) > 0
    /\ trace_file = <<>>

\* ---------------------------------------------------- the whole-run check
\* every search configuration had a Search artifact when the invocation began
AllMeasured == \A id \in SearchIds : GlobSearchId(pre, id) # {}

\* C34 as stated: a run skipped as a whole under skip_if_exists leaves no
\* search configuration unmeasured: every search_id in 0..N-1 has a Search
\* artifact.
C34_WholeSkipLeavesNoneUnmeasured ==
    pc = "skipped" => \A id \in SearchIds : GlobSearchId(store, id) # {}

InWaitFunction == spc \in {"wait_has", "wait_flush", "wait_index", "wait_compact"}

\* C36 as stated: once wait_for_indexing_completion has connected and control
\* has left it, by the missing collection, by normal completion or by an error
\* at the collection lookup, the flush or a poll, the connection has been
\* closed by exactly one disconnect.
C36_EveryConnectDisconnected ==
    ("connect" \in Ops(slog) /\ ~InWaitFunction) =>
        /\ Count(slog, "disconnect") = 1
        /\ ~connected

\* ------------------------------------------------- estimate_size.py claims
\* C37 as stated: in estimate_size.test(), once start_docker_containers has
\* issued the launch for a cell, stop_docker_containers is invoked for that
\* cell before the driver moves on or aborts, also when start fails its
\* running-state check after the launch.
C37_LaunchAlwaysStopped ==
    (driver = "estimate" /\ "launch" \in Ops(slog)
        /\ spc \in {"est_start", "finished", "aborted"})
    => "stop" \in Ops(slog)

\* ------------------------------------------------------- stops per cell
\* test() has left the cell whose calls slog holds
CellLeft == slog # <<>> /\ spc \in {"start", "clear", "finished", "aborted"}

\* C38: in the profiling sweeps stop_docker_containers is invoked once or
\* twice per cell: twice when every step up to the stop of the try body was
\* reached without a failure (the second call, in the finally block, is made
\* after the first has torn the containers down), once when a step before the
\* stop of the try body failed.
C38_StopOnceOrTwicePerCell ==
    /\ Count(slog, "stop") <= 2
    /\ CellLeft =>
          Count(slog, "stop") =
              IF Ops(slog) \cap StepFailures = {} THEN 2 ELSE 1
    /\ CellLeft =>
          (Ops(slog) \cap StepFailures = {} <=> "run_profile_returned" \in Ops(slog))
    /\ (spc = "finally_stop" /\ "stopped" \in Ops(slog)) =>
          /\ Count(slog, "stop") = 1
          /\ container \in {"absent", "lingering"}

\* a cell of the probe sweep all of whose steps succeeded: two stops
C38_Witness ==
    /\ CellLeft
    /\ driver = "probe"
    /\ "run_profile_returned" \in Ops(slog)
    /\ Count(slog, "stop") = 2
    /\ Count(slog, "stopped") = 2
    /\ container = "absent"

\* --------------------------------------------------- the tracer's output
\* C39 as stated: when the tracer is ended by the termination signal the
\* Profiling Coordinator sends (SIGTERM), it closes its output file, so every
\* line printed before the signal is in the file.
C39_TerminateKeepsEveryLine ==
    (apc = "tr_exited" /\ signal = "SIGTERM") =>
        /\ out_buffer = <<>>
        /\ trace_file = SubSeq(WriteBpf(events), 1, Len(trace_file))
        /\ Len(trace_file) >= 2

\* ------------------------------------------- a failure of ensure_loaded
\* the search loop has handled search_id: skipped, searched, or search_all raised
Handled(id) == At("skip_search", id) \cup At("search_all", id)
                  \cup At("search_all_raised", id) # {}

\* C40: an exception of ensure_loaded is caught: the invocation goes on to the
\* search loop, which calls search_all for every configuration that has no
\* artifact (all of them without skip_if_exists); the loop ends early only when
\* a search_all itself raises.
C40_EnsureLoadedFailureGoesOn ==
    "ensure_loaded_raised" \in Ops(log) =>
        /\ pc \in {"search", "done", "raised"}
        /\ pc = "raised" => "search_all_raised" \in Ops(log)
        /\ \A id \in SearchIds :
              (pc = "done" \/ (pc = "search" /\ id < search_id)) =>
                  /\ Handled(id)
                  /\ At("skip_search", id) # {} =>
                        (flags.skip_if_exists /\ GlobSearchId(pre, id) # {})

\* ensure_loaded raised and both configurations were searched afterwards
C40_Witness ==
    /\ pc = "done"
    /\ searchers = 2
    /\ "ensure_loaded_raised" \in Ops(log)
    /\ At("search_all", 0) # {}
    /\ At("search_all", 1) # {}
====
